---- MODULE Spec2Model ----
(***************************************************************************)
(* Verification model of the bark-texture generator (dhoman/trees).        *)
(*                                                                         *)
(* Numbers.  The program computes in IEEE doubles; the model computes in   *)
(* fixed point: a real r is the integer floor(r * Unit).  Pixel            *)
(* coordinates, noise values, HSB components and all parameters are in     *)
(* this representation; RGBA channels, cell coordinates, octave and        *)
(* iteration counts and seeds are plain integers.                          *)
(*                                                                         *)
(* The coherent-noise generator is p5's (p.noise / p.noiseSeed), which is  *)
(* a library outside the repository.  It is modelled as what the program   *)
(* relies on: a value in [0,1) that is a fixed function of the generator's *)
(* seed state and of the sample coordinates.                               *)
(***************************************************************************)
EXTENDS Integers, Sequences, FiniteSets, TLC

\* Fixed-point unit: 1.0 is represented by Unit.
Unit == 10 * 100

\* Stand-in for the IEEE values Infinity and NaN (outside every range used).
Infinity == Unit * Unit * 1000
NaN == 0 - Infinity - 1

Mul(a, b) == (a * b) \div Unit
Div(a, b) == (a * Unit) \div b
Min(a, b) == IF a < b THEN a ELSE b
Max(a, b) == IF a > b THEN a ELSE b
Abs(a) == IF a < 0 THEN 0 - a ELSE a

\* JavaScript's number division: 0/0 is NaN, x/0 is +-Infinity.
JsDiv(a, b) ==
  IF b = 0 THEN (IF a = 0 THEN NaN ELSE IF a > 0 THEN Infinity ELSE 0 - Infinity)
  ELSE Div(a, b)

\* JavaScript's % : the result takes the sign of the dividend.
JsMod(a, m) == IF a >= 0 THEN a % m ELSE 0 - ((0 - a) % m)

\* Math.round on a fixed-point value, giving an integer.
Round(a) == (a + (Unit \div 2)) \div Unit

\* Math.floor on a fixed-point value, giving an integer.
Floor(a) == a \div Unit

\* Math.sqrt of (a/Unit)^2 + (b/Unit)^2 in fixed point: the integer square
\* root of a*a + b*b, found by bisection.
RECURSIVE SqrtSearch(_, _, _)
SqrtSearch(n, lo, hi) ==
  IF lo >= hi THEN lo
  ELSE LET mid == (lo + hi + 1) \div 2
       IN IF mid * mid <= n THEN SqrtSearch(n, mid, hi)
          ELSE SqrtSearch(n, lo, mid - 1)

Sqrt2(a, b) == SqrtSearch(a * a + b * b, 0, Abs(a) + Abs(b))

\* Math.PI and Math.sin / Math.cos (Bhaskara's rational approximation on
\* [0, pi], extended by symmetry; exact at 0, pi/2 and pi).
Pi == 3142
HalfSine(x) ==
  LET t == (x * (Pi - x)) \div Unit
  IN (16 * t * Unit) \div (49348 - 4 * t)
Sin(x) ==
  LET r == x % (2 * Pi)
  IN IF r <= Pi THEN HalfSine(r) ELSE 0 - HalfSine(r - Pi)
Cos(x) == Sin(x + Pi \div 2)

(***************************************************************************)
(* p5's noise generator: p.noise(x, y) under seed state s.                 *)
(***************************************************************************)
Noise(s, x, y) ==
  (s * 7919 + (x % 997) * 613 + (y % 997) * 389 + 104729) % 997

(***************************************************************************)
(* algorithms/noise.ts                                                     *)
(***************************************************************************)

\* One layer of a fractal sum, per function: fbm uses the raw sample,
\* ridgedNoise (1 - |2n-1|)^2, turbulence and billowedNoise |2n-1|.
Layer(kind, n) ==
  CASE kind = "fbm" -> n
    [] kind = "ridgedNoise" ->
         LET r == Unit - Abs(n * 2 - Unit) IN Mul(r, r)
    [] kind = "turbulence" -> Abs(n * 2 - Unit)
    [] kind = "billowedNoise" -> Abs(n * 2 - Unit)

\* The loop "for (let i = 0; i < params.octaves; i++)" the four functions
\* share; acc holds value, amplitude, frequency and maxValue.
RECURSIVE OctaveLoop(_, _, _, _, _, _, _)
OctaveLoop(kind, s, x, y, params, i, acc) ==
  IF i >= params.octaves THEN acc
  ELSE LET n == Noise(s, Mul(x, acc.frequency), Mul(y, acc.frequency))
       IN OctaveLoop(kind, s, x, y, params, i + 1,
            [value     |-> acc.value + Mul(acc.amplitude, Layer(kind, n)),
             maxValue  |-> acc.maxValue + acc.amplitude,
             amplitude |-> Mul(acc.amplitude, params.persistence),
             frequency |-> Mul(acc.frequency, params.lacunarity)])

FractalSum(kind, s, x, y, params) ==
  LET Normalised(acc) == JsDiv(acc.value, acc.maxValue)
  IN Normalised(OctaveLoop(kind, s, x, y, params, 0,
                  [value |-> 0, amplitude |-> Unit,
                   frequency |-> params.scale, maxValue |-> 0]))

fbm(s, x, y, params) == FractalSum("fbm", s, x, y, params)
ridgedNoise(s, x, y, params) == FractalSum("ridgedNoise", s, x, y, params)
turbulence(s, x, y, params) == FractalSum("turbulence", s, x, y, params)
billowedNoise(s, x, y, params) == FractalSum("billowedNoise", s, x, y, params)

\* domainWarp: each iteration samples two fbm offsets at the current warped
\* point and re-centres on the original (x, y).
RECURSIVE WarpLoop(_, _, _, _, _, _, _)
WarpLoop(s, x, y, warpParams, noiseParams, i, w) ==
  IF i >= warpParams.iterations THEN w
  ELSE LET np == [noiseParams EXCEPT !.scale = warpParams.scale]
           offsetX == fbm(s, w[1], w[2], np)
           offsetY == fbm(s, w[1] + 5200, w[2] + 1300, np)
       IN WarpLoop(s, x, y, warpParams, noiseParams, i + 1,
            << x + Mul(warpParams.strength, offsetX * 2 - Unit),
               y + Mul(warpParams.strength, offsetY * 2 - Unit) >>)

domainWarp(s, x, y, warpParams, noiseParams) ==
  WarpLoop(s, x, y, warpParams, noiseParams, 0, << x, y >>)

applyDirectionalBias(x, y, verticalBias, horizontalBias, angle) ==
  LET cos == Cos(angle)
      sin == Sin(angle)
      rx == Mul(x, cos) - Mul(y, sin)
      ry == Mul(x, sin) + Mul(y, cos)
      scaleX == Unit + horizontalBias
      scaleY == Unit + verticalBias
  IN << Mul(rx, scaleX), Div(ry, scaleY) >>

mixNoise(a, b, t) == Mul(a, Unit - t) + Mul(b, t)

applyContrast(value, contrast) ==
  LET adjusted == Mul(value - Unit \div 2, contrast) + Unit \div 2
  IN Max(0, Min(Unit, adjusted))

(***************************************************************************)
(* algorithms/voronoi.ts                                                   *)
(***************************************************************************)

distanceFunctions(name, dx, dy) ==
  CASE name = "euclidean" -> Sqrt2(dx, dy)
    [] name = "manhattan" -> Abs(dx) + Abs(dy)
    [] name = "chebyshev" -> Max(Abs(dx), Abs(dy))

\* A cell id whose multiplier is narrower than the range of cell rows.
nearestCellId_narrow(neighborX, neighborY) == neighborX * 10 + neighborY

\* "Create a unique cell ID from coordinates".
nearestCellId(neighborX, neighborY) == neighborX * 1000 + neighborY

\* The jittered seed point of integer cell (cellX, cellY).
getCellPoints(s, cellX, cellY, jitter) ==
  LET noiseX == Noise(s, cellX * 100 * Unit, cellY * 100 * Unit)
      noiseY == Noise(s, (cellX * 100 + 50) * Unit, (cellY * 100 + 50) * Unit)
  IN [x |-> cellX * Unit + Unit \div 2 + Mul(noiseX - Unit \div 2, jitter),
      y |-> cellY * Unit + Unit \div 2 + Mul(noiseY - Unit \div 2, jitter)]

\* The scan without the else-branch that records a second-nearest seed.
RECURSIVE NeighbourScan_forgetful(_, _, _, _, _, _, _, _)
NeighbourScan_forgetful(s, scaledX, scaledY, cellX, cellY, params, k, acc) ==
  IF k > 8 THEN acc
  ELSE LET neighborX == cellX + (k % 3) - 1
           neighborY == cellY + (k \div 3) - 1
           Dist(point) == distanceFunctions(params.distanceFunction,
                                            scaledX - point.x, scaledY - point.y)
           Closest(dist) ==
             IF dist < acc.f1
             THEN [f1 |-> dist, f2 |-> acc.f1,
                   cellId |-> nearestCellId(neighborX, neighborY)]
             ELSE acc
       IN NeighbourScan_forgetful(s, scaledX, scaledY, cellX, cellY, params, k + 1,
            Closest(Dist(getCellPoints(s, neighborX, neighborY, params.jitter))))

\* The 3x3 scan, in the order of the two nested loops (offsetY outer,
\* offsetX inner); k = 0..8 numbers the neighbours in that order.
RECURSIVE NeighbourScan(_, _, _, _, _, _, _, _)
NeighbourScan(s, scaledX, scaledY, cellX, cellY, params, k, acc) ==
  IF k > 8 THEN acc
  ELSE LET neighborX == cellX + (k % 3) - 1
           neighborY == cellY + (k \div 3) - 1
           Dist(point) == distanceFunctions(params.distanceFunction,
                                            scaledX - point.x, scaledY - point.y)
           Closest(dist) ==
             IF dist < acc.f1
             THEN [f1 |-> dist, f2 |-> acc.f1,
                   cellId |-> nearestCellId(neighborX, neighborY)]
             ELSE IF dist < acc.f2
             THEN [acc EXCEPT !.f2 = dist]
             ELSE acc
       IN NeighbourScan(s, scaledX, scaledY, cellX, cellY, params, k + 1,
            Closest(Dist(getCellPoints(s, neighborX, neighborY, params.jitter))))

voronoiNoise(s, x, y, params) ==
  LET Scan(scaledX, scaledY) ==
        NeighbourScan(s, scaledX, scaledY, Floor(scaledX), Floor(scaledY),
                      params, 0, [f1 |-> Infinity, f2 |-> Infinity, cellId |-> 0])
  IN Scan(Mul(x, params.cellDensity), Mul(y, params.cellDensity))

\* voronoiEdges with the falloff division applied for every edgeWidth.
voronoiEdges_dividing(s, x, y, params) ==
  LET EdgeDist(vn) == vn.f2 - vn.f1
      EdgeValue(edgeDist) ==
        IF JsDiv(edgeDist, params.edgeWidth) = NaN THEN NaN
        ELSE IF JsDiv(edgeDist, params.edgeWidth) = Infinity THEN 0
        ELSE Unit - Min(Unit, JsDiv(edgeDist, params.edgeWidth))
  IN EdgeValue(EdgeDist(voronoiNoise(s, x, y, params)))

voronoiEdges(s, x, y, params) ==
  LET EdgeDist(vn) == vn.f2 - vn.f1
      EdgeValue(edgeDist) ==
        IF params.edgeWidth = 0
        THEN (IF edgeDist < 10 THEN Unit ELSE 0)
        ELSE Unit - Min(Unit, Div(edgeDist, params.edgeWidth))
  IN EdgeValue(EdgeDist(voronoiNoise(s, x, y, params)))

voronoiCellValue(s, x, y, params) ==
  LET CellNoise(cellId) == Noise(s, cellId * 100, cellId * 200)
  IN CellNoise(voronoiNoise(s, x, y, params).cellId)

voronoiBark(s, x, y, params) ==
  LET cellValue == voronoiCellValue(s, x, y, params)
      edgeValue == voronoiEdges(s, x, y, params)
  IN Mul(cellValue, Unit - Mul(edgeValue, 800))

(***************************************************************************)
(* algorithms/colorMap.ts.  An HSB colour is << h, s, b >> with h in       *)
(* degrees and s, b in percent, all fixed point.                           *)
(***************************************************************************)

\* lerpColor without the step that takes the shortest path around the wheel.
lerpColor_direct(color1, color2, t) ==
  << JsMod(color1[1] + Mul(color2[1] - color1[1], t), 360 * Unit),
     color1[2] + Mul(color2[2] - color1[2], t),
     color1[3] + Mul(color2[3] - color1[3], t) >>

lerpColor(color1, color2, t) ==
  LET far == Abs(color2[1] - color1[1]) > 180 * Unit
      h1 == IF far /\ color1[1] < color2[1] THEN color1[1] + 360 * Unit
            ELSE color1[1]
      h2 == IF far /\ ~(color1[1] < color2[1]) THEN color2[1] + 360 * Unit
            ELSE color2[1]
  IN << JsMod(h1 + Mul(h2 - h1, t), 360 * Unit),
        color1[2] + Mul(color2[2] - color1[2], t),
        color1[3] + Mul(color2[3] - color1[3], t) >>

mapToColor(value, palette, variation) ==
  LET Shifted(color) ==
        IF palette.colorVariation > 0 /\ variation > 0
        THEN LET hueShift == Mul((variation - Unit \div 2) * 2, palette.colorVariation)
             IN [color EXCEPT ![1] = JsMod(color[1] + hueShift + 360 * Unit, 360 * Unit)]
        ELSE color
  IN Shifted(IF value < Unit \div 2
             THEN lerpColor(palette.shadowColor, palette.baseColor, value * 2)
             ELSE lerpColor(palette.baseColor, palette.highlightColor,
                            (value - Unit \div 2) * 2))

hsbToRgb(h0, s0, b0) ==
  LET h == h0 \div 360
      s == s0 \div 100
      b == b0 \div 100
      i == Floor(h * 6)
      f == h * 6 - i * Unit
      p == Mul(b, Unit - s)
      q == Mul(b, Unit - Mul(f, s))
      t == Mul(b, Unit - Mul(Unit - f, s))
      sector == JsMod(i, 6)
      Bytes(rgb) == << Round(rgb[1] * 255), Round(rgb[2] * 255), Round(rgb[3] * 255) >>
  IN Bytes(IF s = 0 THEN << b, b, b >>
           ELSE CASE sector = 0 -> << b, t, p >>
                  [] sector = 1 -> << q, b, p >>
                  [] sector = 2 -> << p, b, t >>
                  [] sector = 3 -> << p, q, b >>
                  [] sector = 4 -> << t, p, b >>
                  [] sector = 5 -> << b, p, q >>
                  [] OTHER -> << 0, 0, 0 >>)

getPixelColor(value, palette, variation) ==
  LET Rgb(hsb) == hsbToRgb(hsb[1], hsb[2], hsb[3])
      Rgba(rgb) == << rgb[1], rgb[2], rgb[3], 255 >>
  IN Rgba(Rgb(mapToColor(value, palette, variation)))

speciesPalettes ==
  [pine   |-> [baseColor |-> << 20000, 45000, 35000 >>,
               shadowColor |-> << 15000, 55000, 20000 >>,
               highlightColor |-> << 25000, 30000, 50000 >>,
               colorVariation |-> 8000],
   oak    |-> [baseColor |-> << 30000, 35000, 30000 >>,
               shadowColor |-> << 25000, 45000, 15000 >>,
               highlightColor |-> << 35000, 25000, 45000 >>,
               colorVariation |-> 5000],
   birch  |-> [baseColor |-> << 40000, 8000, 90000 >>,
               shadowColor |-> << 30000, 20000, 25000 >>,
               highlightColor |-> << 45000, 5000, 95000 >>,
               colorVariation |-> 3000],
   maple  |-> [baseColor |-> << 25000, 30000, 40000 >>,
               shadowColor |-> << 20000, 40000, 20000 >>,
               highlightColor |-> << 30000, 20000, 55000 >>,
               colorVariation |-> 6000],
   cherry |-> [baseColor |-> << 10000, 50000, 35000 >>,
               shadowColor |-> << 5000, 60000, 20000 >>,
               highlightColor |-> << 15000, 35000, 50000 >>,
               colorVariation |-> 10000]]

(***************************************************************************)
(* generators/*.ts: the species presets.  seed is the value drawn by       *)
(* Math.floor(Math.random() * 10000).                                      *)
(***************************************************************************)

SpeciesNames == << "pine", "oak", "birch", "maple", "cherry" >>
Species == { SpeciesNames[i] : i \in 1..Len(SpeciesNames) }

PineBark_createDefaultParams(seed) ==
  [species |-> "pine",
   noise |-> [scale |-> 15, octaves |-> 5, lacunarity |-> 2200,
              persistence |-> 500, seed |-> seed],
   warp |-> [strength |-> 800, iterations |-> 2, scale |-> 8],
   voronoi |-> [cellDensity |-> 25, distanceFunction |-> "euclidean",
                edgeWidth |-> 150, jitter |-> 800],
   direction |-> [verticalBias |-> 600, horizontalBias |-> 100, angle |-> 0],
   colors |-> speciesPalettes.pine,
   ridgeIntensity |-> 400,
   contrast |-> 1300]

OakBark_createDefaultParams(seed) ==
  [species |-> "oak",
   noise |-> [scale |-> 12, octaves |-> 6, lacunarity |-> 2000,
              persistence |-> 550, seed |-> seed],
   warp |-> [strength |-> 1200, iterations |-> 2, scale |-> 6],
   voronoi |-> [cellDensity |-> 15, distanceFunction |-> "euclidean",
                edgeWidth |-> 250, jitter |-> 900],
   direction |-> [verticalBias |-> 300, horizontalBias |-> 200, angle |-> 0],
   colors |-> speciesPalettes.oak,
   ridgeIntensity |-> 700,
   contrast |-> 1500]

BirchBark_createDefaultParams(seed) ==
  [species |-> "birch",
   noise |-> [scale |-> 20, octaves |-> 4, lacunarity |-> 2000,
              persistence |-> 400, seed |-> seed],
   warp |-> [strength |-> 300, iterations |-> 1, scale |-> 10],
   voronoi |-> [cellDensity |-> 10, distanceFunction |-> "euclidean",
                edgeWidth |-> 50, jitter |-> 500],
   direction |-> [verticalBias |-> 50, horizontalBias |-> 800, angle |-> 0],
   colors |-> speciesPalettes.birch,
   ridgeIntensity |-> 100,
   contrast |-> 900]

MapleBark_createDefaultParams(seed) ==
  [species |-> "maple",
   noise |-> [scale |-> 18, octaves |-> 5, lacunarity |-> 2100,
              persistence |-> 450, seed |-> seed],
   warp |-> [strength |-> 500, iterations |-> 2, scale |-> 10],
   voronoi |-> [cellDensity |-> 20, distanceFunction |-> "manhattan",
                edgeWidth |-> 180, jitter |-> 600],
   direction |-> [verticalBias |-> 500, horizontalBias |-> 150, angle |-> 0],
   colors |-> speciesPalettes.maple,
   ridgeIntensity |-> 350,
   contrast |-> 1200]

CherryBark_createDefaultParams(seed) ==
  [species |-> "cherry",
   noise |-> [scale |-> 25, octaves |-> 3, lacunarity |-> 2000,
              persistence |-> 350, seed |-> seed],
   warp |-> [strength |-> 200, iterations |-> 1, scale |-> 15],
   voronoi |-> [cellDensity |-> 8, distanceFunction |-> "euclidean",
                edgeWidth |-> 50, jitter |-> 400],
   direction |-> [verticalBias |-> 100, horizontalBias |-> 500, angle |-> 0],
   colors |-> speciesPalettes.cherry,
   ridgeIntensity |-> 100,
   contrast |-> 1100]

\* getDefaultParams() of the generator class with species tag sp.
getDefaultParams(sp, seed) ==
  CASE sp = "pine" -> PineBark_createDefaultParams(seed)
    [] sp = "oak" -> OakBark_createDefaultParams(seed)
    [] sp = "birch" -> BirchBark_createDefaultParams(seed)
    [] sp = "maple" -> MapleBark_createDefaultParams(seed)
    [] sp = "cherry" -> CherryBark_createDefaultParams(seed)

(***************************************************************************)
(* calculateBarkValue: the base class's and the four overrides.  s is the  *)
(* seed state of the shared noise generator at the time of the call.       *)
(***************************************************************************)

\* The first two steps every variant starts with: directional bias, warp.
WarpedPoint(params, s, x, y) ==
  LET Warp(b) == domainWarp(s, b[1], b[2], params.warp, params.noise)
  IN Warp(applyDirectionalBias(x, y, params.direction.verticalBias,
            params.direction.horizontalBias, params.direction.angle))

BarkGenerator_calculateBarkValue(params, s, x, y) ==
  LET At(w) ==
        LET baseNoise == fbm(s, w[1], w[2], params.noise)
            ridged == ridgedNoise(s, w[1], w[2],
                        [params.noise EXCEPT !.scale = Mul(params.noise.scale, 500)])
            voronoi == voronoiBark(s, w[1], w[2], params.voronoi)
            edges == voronoiEdges(s, w[1], w[2], params.voronoi)
            v1 == mixNoise(baseNoise, ridged, params.ridgeIntensity)
            v2 == mixNoise(v1, voronoi, 300)
            v3 == Mul(v2, Unit - Mul(edges, 500))
        IN applyContrast(v3, params.contrast)
  IN At(WarpedPoint(params, s, x, y))

OakBark_calculateBarkValue(params, s, x, y) ==
  LET At(w) ==
        LET baseNoise == fbm(s, w[1], w[2], params.noise)
            ridged == ridgedNoise(s, w[1], w[2],
                        [params.noise EXCEPT !.scale = Mul(params.noise.scale, 400)])
            ridged2 == ridgedNoise(s, Mul(w[1], 1500), Mul(w[2], 1500),
                        [params.noise EXCEPT !.scale = Mul(params.noise.scale, 800),
                                             !.octaves = 3])
            v1 == mixNoise(baseNoise, ridged, params.ridgeIntensity)
            v2 == mixNoise(v1, ridged2, 300)
            detail == fbm(s, w[1] * 3, w[2] * 3,
                        [params.noise EXCEPT !.scale = params.noise.scale * 2,
                                             !.octaves = 3])
            v3 == mixNoise(v2, detail, 150)
        IN applyContrast(v3, params.contrast)
  IN At(WarpedPoint(params, s, x, y))

BirchBark_calculateBarkValue(params, s, x, y) ==
  LET At(w) ==
        LET baseNoise == fbm(s, w[1], w[2], params.noise)
            bandFreq == 80
            bandNoise == Noise(s, Mul(w[1], 10), Mul(w[2], bandFreq))
            bands == Sin(Mul(Mul(w[2], bandFreq), 2 * Pi) + bandNoise * 5)
            bandMask == Max(0, Mul(bands, 500) + 500)
            lenticelNoise == Noise(s, Mul(w[1], 50), Mul(w[2], 20))
            lenticelThreshold == 650
            v1 == 850 + Mul(baseNoise, 150)
            v2 == IF lenticelNoise > lenticelThreshold
                  THEN LET lenticelIntensity ==
                             Div(lenticelNoise - lenticelThreshold, Unit - lenticelThreshold)
                       IN Mul(v1, Unit - Mul(lenticelIntensity, 700))
                  ELSE v1
            v3 == Mul(v2, 950 + Mul(bandMask, 50))
        IN Max(0, Min(Unit, applyContrast(v3, params.contrast)))
  IN At(WarpedPoint(params, s, x, y))

MapleBark_calculateBarkValue(params, s, x, y) ==
  LET At(w) ==
        LET baseNoise == fbm(s, w[1], w[2], params.noise)
            voronoi == voronoiBark(s, w[1], w[2], params.voronoi)
            edges == voronoiEdges(s, w[1], w[2], params.voronoi)
            verticalFissure == ridgedNoise(s, Mul(w[1], 300), w[2],
                        [params.noise EXCEPT !.scale = Mul(params.noise.scale, 500),
                                             !.octaves = 3])
            v1 == mixNoise(baseNoise, voronoi, 400)
            v2 == mixNoise(v1, verticalFissure, params.ridgeIntensity)
            v3 == Mul(v2, Unit - Mul(edges, 600))
        IN applyContrast(v3, params.contrast)
  IN At(WarpedPoint(params, s, x, y))

CherryBark_calculateBarkValue(params, s, x, y) ==
  LET At(w) ==
        LET baseNoise == fbm(s, w[1], w[2], params.noise)
            bandFreq == 40
            bandPhase == Noise(s, Mul(w[1], 5), 0) * 10
            bands == Sin(Mul(Mul(w[2], bandFreq) + bandPhase, 2 * Pi))
            bandValue == Mul(bands, 500) + 500
            lenticelPattern == Noise(s, Mul(w[1], 30), Mul(w[2], 15))
            lenticelMask == IF lenticelPattern > 600
                            THEN Mul(lenticelPattern - 600, 2500) ELSE 0
            v1 == 500 + Mul(baseNoise, 300)
            v2 == mixNoise(v1, Mul(bandValue, 600) + 400, 150)
            v3 == Mul(v2, Unit - Mul(lenticelMask, 150))
            highlight == fbm(s, Mul(w[1], 500), Mul(w[2], 500),
                           [params.noise EXCEPT !.octaves = 2])
            v4 == v3 + Mul(highlight, 100)
        IN Max(0, Min(Unit, applyContrast(v4, params.contrast)))
  IN At(WarpedPoint(params, s, x, y))

\* this.calculateBarkValue(x, y), dispatched on the generator's class.
calculateBarkValue(sp, params, s, x, y) ==
  CASE sp = "pine" -> BarkGenerator_calculateBarkValue(params, s, x, y)
    [] sp = "oak" -> OakBark_calculateBarkValue(params, s, x, y)
    [] sp = "birch" -> BirchBark_calculateBarkValue(params, s, x, y)
    [] sp = "maple" -> MapleBark_calculateBarkValue(params, s, x, y)
    [] sp = "cherry" -> CherryBark_calculateBarkValue(params, s, x, y)

(***************************************************************************)
(* The rasterizer loops.  A pixel array is a sequence of RGBA quadruples,  *)
(* row-major: pixel (px, py) of a width-wide buffer is entry               *)
(* py * width + px + 1.                                                    *)
(***************************************************************************)

chunkSize == 16

\* The colour of one pixel of species sp at (px, py), given variation.
PixelColor(sp, params, s, px, py, variation) ==
  getPixelColor(calculateBarkValue(sp, params, s, px * Unit, py * Unit),
                params.colors, variation)

\* The body of the pixel loop of BarkGenerator.generate.
generate_pixel(sp, params, s, px, py) ==
  PixelColor(sp, params, s, px, py, Noise(s, px * 100, py * 100))

\* The body of the pixel loop of BirchBark.generate.
BirchBark_generate_pixel(sp, params, s, px, py) ==
  PixelColor(sp, params, s, px, py, Mul(Noise(s, px * 60, py * 60), 300))

\* The body of the pixel loop of processChunk in generateAsync.
processChunk_pixel(sp, params, s, px, py) ==
  PixelColor(sp, params, s, px, py, Noise(s, px * 100, py * 100))

\* Rows fromRow .. toRow-1 of pixels overwritten with the colours body
\* gives for (px, py), the rest kept.
WriteRows(pixels, width, fromRow, toRow, body) ==
  [i \in 1..Len(pixels) |->
     LET py == (i - 1) \div width
         px == (i - 1) % width
     IN IF fromRow <= py /\ py < toRow THEN body[px, py] ELSE pixels[i]]

\* The two nested loops of generate, as dispatched on the generator's class:
\* BirchBark overrides generate, the other four inherit it.
generate_loops(sp, params, s, width, height, pixels) ==
  WriteRows(pixels, width, 0, height,
    [px \in 0..(width - 1), py \in 0..(height - 1) |->
       IF sp = "birch" THEN BirchBark_generate_pixel(sp, params, s, px, py)
       ELSE generate_pixel(sp, params, s, px, py)])

\* The rows one processChunk call writes (generateAsync is not overridden).
processChunk_loops(sp, params, s, width, currentRow, endRow, pixels) ==
  WriteRows(pixels, width, currentRow, endRow,
    [px \in 0..(width - 1), py \in currentRow..(endRow - 1) |->
       processChunk_pixel(sp, params, s, px, py)])

\* A freshly created buffer's pixels: transparent black.
BlankPixels(width, height) == [i \in 1..(width * height) |-> << 0, 0, 0, 0 >>]

(***************************************************************************)
(* Objects.  JavaScript objects are entries of heap; a reference is an     *)
(* index into it and Null is no object.  A BarkParams object refers to its *)
(* five nested structs, a ColorPalette to its three colour triples; every  *)
(* other field holds a primitive.                                          *)
(***************************************************************************)

Null == 0

StructFields == << "noise", "warp", "voronoi", "direction", "colors" >>
TripleFields == << "baseColor", "shadowColor", "highlightColor" >>
RefFields == StructFields \o TripleFields
Range(seq) == { seq[i] : i \in 1..Len(seq) }

EmptyObject == << >>

\* The object spread { ...a, ...b }: b's own fields win.
Spread(a, b) ==
  [k \in DOMAIN a \cup DOMAIN b |-> IF k \in DOMAIN b THEN b[k] ELSE a[k]]

Without(obj, k) == [f \in DOMAIN obj \ {k} |-> obj[f]]

\* An object literal evaluated: its nested literals become objects of their
\* own (innermost first), the result is the heap and the new reference.
RECURSIVE AllocFields(_, _, _)
RECURSIVE AllocTree(_, _)
AllocFields(h, v, i) ==
  IF i > Len(RefFields) THEN [heap |-> h, obj |-> v]
  ELSE LET k == RefFields[i]
       IN IF k \in DOMAIN v
          THEN LET sub == IF k \in Range(TripleFields)
                          THEN [heap |-> Append(h, v[k]), addr |-> Len(h) + 1]
                          ELSE AllocTree(h, v[k])
               IN AllocFields(sub.heap, [v EXCEPT ![k] = sub.addr], i + 1)
          ELSE AllocFields(h, v, i + 1)
AllocTree(h, v) ==
  LET r == AllocFields(h, v, 1)
  IN [heap |-> Append(r.heap, r.obj), addr |-> Len(r.heap) + 1]

\* The value an object graph holds: references followed.
DerefColors(h, a) ==
  [k \in DOMAIN h[a] |-> IF k \in Range(TripleFields) THEN h[h[a][k]] ELSE h[a][k]]
DerefParams(h, a) ==
  [k \in DOMAIN h[a] |->
     IF k = "colors" THEN DerefColors(h, h[a][k])
     ELSE IF k \in Range(StructFields) THEN h[h[a][k]]
     ELSE h[a][k]]

\* The module-level speciesPalettes object: one palette object per species,
\* created once when colorMap.ts is loaded.
RECURSIVE AllocPalettes(_, _)
AllocPalettes(h, i) ==
  IF i > Len(SpeciesNames) THEN h
  ELSE AllocPalettes(AllocTree(h, speciesPalettes[SpeciesNames[i]]).heap, i + 1)
PaletteHeap == AllocPalettes(<< >>, 1)
PaletteIndex(sp) == CHOOSE i \in 1..Len(SpeciesNames) : SpeciesNames[i] = sp
PaletteAddr(sp) == 4 * PaletteIndex(sp)

\* XBark.createDefaultParams(): a new params object with four new nested
\* structs; colors is the shared speciesPalettes entry itself.
createDefaultParams(h, sp, seed) ==
  LET r == AllocFields(h, Without(getDefaultParams(sp, seed), "colors"), 1)
      obj == Spread(r.obj, [colors |-> PaletteAddr(sp)])
  IN [heap |-> Append(r.heap, obj), addr |-> Len(r.heap) + 1]

\* new XBark(p, params): super(p, { ...defaults, ...params }) and then
\* this.params = { ...params } in the base constructor.  over is the
\* caller's object or Null.
construct(h, sp, seed, over) ==
  LET d == createDefaultParams(h, sp, seed)
      merged == Spread(d.heap[d.addr], IF over = Null THEN EmptyObject ELSE h[over])
      copy == Spread(EmptyObject, merged)
  IN [heap |-> Append(d.heap, copy), addr |-> Len(d.heap) + 1]

\* A setParams that merges one level only: a nested struct named by the
\* update replaces the generator's.
setParams_shallow(h, cur, upd) ==
  LET old == h[cur]
      arg == h[upd]
      Nested(k) == IF k \in DOMAIN arg THEN h[arg[k]] ELSE h[old[k]]
      base == Len(h)
      structs == [i \in 1..Len(StructFields) |-> Nested(StructFields[i])]
      fresh == [k \in Range(StructFields) |->
                  base + (CHOOSE i \in 1..Len(StructFields) : StructFields[i] = k)]
      obj == Spread(Spread(old, arg), fresh)
  IN [heap |-> (h \o structs) \o << obj >>, addr |-> base + Len(StructFields) + 1]

\* getParams(): a new object with the fields of this.params.
getParams(h, cur) == [heap |-> Append(h, Spread(EmptyObject, h[cur])), addr |-> Len(h) + 1]

\* A caller's assignment through a reference r it holds: r.k = v,
\* r.k.f = v, or r.k.f[0] = v where r.k.f is a colour triple.
Assignable(h, r, path) ==
  /\ path[1] \in DOMAIN h[r]
  /\ Len(path) = 2 => path[2] \in DOMAIN h[h[r][path[1]]]
assign(h, r, path, v) ==
  IF Len(path) = 1 THEN [h EXCEPT ![r][path[1]] = v]
  ELSE IF path[2] \in Range(TripleFields)
       THEN [h EXCEPT ![h[h[r][path[1]]][path[2]]][1] = v]
       ELSE [h EXCEPT ![h[r][path[1]]][path[2]] = v]

\* setParams(params): the new params object and its five new nested structs.
setParams(h, cur, upd) ==
  LET old == h[cur]
      arg == h[upd]
      Nested(k) == Spread(h[old[k]], IF k \in DOMAIN arg THEN h[arg[k]] ELSE EmptyObject)
      base == Len(h)
      structs == [i \in 1..Len(StructFields) |-> Nested(StructFields[i])]
      fresh == [k \in Range(StructFields) |->
                  base + (CHOOSE i \in 1..Len(StructFields) : StructFields[i] = k)]
      obj == Spread(Spread(old, arg), fresh)
  IN [heap |-> (h \o structs) \o << obj >>, addr |-> base + Len(StructFields) + 1]

(***************************************************************************)
(* State.                                                                  *)
(***************************************************************************)

VARIABLES
  heap,       \* the objects: params objects, nested structs, colour triples
  held,       \* references the caller holds: objects it passed in or got back
  noiseSeed,  \* seed state of the p5 instance's noise generator, shared
  species,    \* per generator: its class (the species getter)
  params,     \* per generator: this.params, a reference
  graphics,   \* per generator: this.graphics, a buffer index or Null
  buffers,    \* the p5.Graphics buffers created so far
  tasks,      \* the generateAsync calls in flight, one record per promise
  calls,      \* number of API calls made so far (bounds the exploration)
  lastCall,   \* the most recent API call and how it ended
  history,    \* the results generate() has returned so far
  resolved,   \* the most recent generateAsync resolution
  lastGood,   \* per generator: the result of its last completed render
  noiseCall,  \* a call of one of the fractal-sum functions, and its outcome
  regCall,    \* a call of createGenerator / getSpeciesDefaults, and its outcome
  classifierCall,  \* a call of the species classifier, and its outcome
  timers,     \* the app's pending validation timers, oldest first
  panel,      \* what the app's validation panel shows
  pixelDensity,  \* the p5 instance's pixel density
  paramPanel  \* the parameter panel's params object; Null before it is built

vars == << heap, held, noiseSeed, species, params, graphics, buffers, tasks,
           calls, lastCall, history, resolved, lastGood, noiseCall, regCall,
           classifierCall, timers, panel, pixelDensity,
                  paramPanel >>

\* Bounds of the exploration.
MaxCalls == 2
MaxWidth == 1
ExtraRows == 1

Gens == { "g1", "g2" }
\* Math.random() seeds drawn by createDefaultParams after construction.
Seeds == { 2 }
Unseeded == 0
TallHeight == chunkSize + ExtraRows

\* Canvas sizes offered to generate and generateAsync.  The first generator
\* is the one under study; the second shares its p5 instance and only
\* renders one-shot.
Dims == { << MaxWidth, TallHeight >>, << MaxWidth, 0 >> }
RenderDims(g) == IF g = "g1" THEN Dims ELSE { << MaxWidth, 1 >> }
Studied == { "g1" }

\* Partial updates offered to setParams.
Updates == { [noise |-> [scale |-> 50]],
             [colors |-> [colorVariation |-> 0]] }

None == [kind |-> "none"]

(***************************************************************************)
(* p5.Graphics.  A buffer has a canvas (what is displayed, exported and    *)
(* read back) and a pixels array; loadPixels() replaces the array by a new *)
(* one read from the canvas (arr counts the arrays, so a holder of an      *)
(* older array is recognised), updatePixels() writes the current array to  *)
(* the canvas.                                                             *)
(***************************************************************************)

createGraphics(width, height) ==
  [width |-> width, height |-> height,
   canvas |-> BlankPixels(width, height), pixels |-> << >>, arr |-> 0]
loadPixels(b) == [b EXCEPT !.pixels = b.canvas, !.arr = b.arr + 1]
updatePixels(b) == [b EXCEPT !.canvas = b.pixels]

\* A buffer test that compares the width only.
NeedsNewBuffer_widthOnly(g, width, height) ==
  \/ graphics[g] = Null
  \/ buffers[graphics[g]].width # width

\* "if (!this.graphics || this.graphics.width !== width || ...)".
NeedsNewBuffer(g, width, height) ==
  \/ graphics[g] = Null
  \/ buffers[graphics[g]].width # width
  \/ buffers[graphics[g]].height # height

\* A noiseSeed that stirs the seed into the state it finds.
reseed_stirred(state, ps) == state + ps.noise.seed

\* this.p.noiseSeed(this.params.noise.seed): the generator's new seed state.
reseed(state, ps) == ps.noise.seed

\* Every task in flight has had something run between two of its chunks.
Interleaved(ts) == [i \in 1..Len(ts) |-> [ts[i] EXCEPT !.clean = FALSE]]

(***************************************************************************)
(* JavaScript numbers with NaN: every comparison with NaN is false and     *)
(* every arithmetic result on NaN is NaN.                                  *)
(***************************************************************************)

JsGe(a, b) == a # NaN /\ b # NaN /\ a >= b
JsLe(a, b) == a # NaN /\ b # NaN /\ a <= b
JsLt(a, b) == a # NaN /\ b # NaN /\ a < b
JsGt(a, b) == a # NaN /\ b # NaN /\ a > b
JsAdd(a, b) == IF a = NaN \/ b = NaN THEN NaN ELSE a + b
JsSub(a, b) == IF a = NaN \/ b = NaN THEN NaN ELSE a - b
JsMul(a, b) == IF a = NaN \/ b = NaN THEN NaN ELSE Mul(a, b)

(***************************************************************************)
(* The feature extractor.  A gray level is a fixed-point number; counts    *)
(* and indices are integers.                                               *)
(***************************************************************************)

\* a / n for a fixed-point a and an integer n, as JavaScript divides.
JsOver(a, n) ==
  IF a = NaN THEN NaN
  ELSE IF n = 0 THEN (IF a = 0 THEN NaN ELSE Infinity)
  ELSE IF a = Infinity THEN Infinity
  ELSE a \div n

\* a * n for a fixed-point a and an integer n > 0.
JsTimes(a, n) == IF a = NaN \/ a = Infinity THEN a ELSE a * n

\* Math.min(1, a)
MinOne(a) == IF a = NaN THEN NaN ELSE IF a = Infinity THEN Unit ELSE Min(Unit, a)

\* A loop of "sum += f[k]": NaN once any term is NaN.
SumOf(f) ==
  LET RECURSIVE Over(_)
      Over(keys) ==
        IF keys = {} THEN 0
        ELSE LET k == CHOOSE k \in keys : TRUE
             IN JsAdd(f[k], Over(keys \ { k }))
  IN Over(DOMAIN f)

\* gray[i] = (0.299 r + 0.587 g + 0.114 b) / 255, for i = 0 .. width*height-1.
\* A pixel beyond the end of the array reads undefined, and its gray is NaN.
toGrayscale(pixels, width, height) ==
  [i \in 0..(width * height - 1) |->
     IF i + 1 > Len(pixels) THEN NaN
     ELSE (299 * pixels[i + 1][1] + 587 * pixels[i + 1][2]
           + 114 * pixels[i + 1][3]) \div 255]

\* The indices the loops "y = 1 .. height-2, x = 1 .. width-2" visit.
interior(width, height) ==
  { y * width + x : x \in 1..(width - 2), y \in 1..(height - 2) }

analyzeDirectionalEnergy(grayscale, width, height) ==
  LET Known(idx, offsets) == \A o \in offsets : grayscale[idx + o] # NaN
      gx(idx) ==
        IF ~Known(idx, { 0 - 1, 1, 0 - width - 1, 1 - width, width - 1, width + 1 })
        THEN NaN
        ELSE (0 - grayscale[idx - 1]) + grayscale[idx + 1]
             + (0 - 2 * grayscale[idx - width - 1])
             + 2 * grayscale[idx - width + 1]
             + (0 - grayscale[idx + width - 1]) + grayscale[idx + width + 1]
      gy(idx) ==
        IF ~Known(idx, { 0 - width, width, 0 - width - 1, width - 1, 1 - width,
                         width + 1 })
        THEN NaN
        ELSE (0 - grayscale[idx - width]) + grayscale[idx + width]
             + (0 - 2 * grayscale[idx - width - 1])
             + 2 * grayscale[idx + width - 1]
             + (0 - grayscale[idx - width + 1]) + grayscale[idx + width + 1]
      MathAbs(v) == IF v = NaN THEN NaN ELSE Abs(v)
      Scaled(sum, count) ==
        MinOne(IF sum = NaN THEN NaN ELSE Div(sum \div count, 300))
      Energy(verticalSum, horizontalSum, count) ==
        IF JsAdd(verticalSum, horizontalSum) = 0
        THEN [verticalEnergy |-> Unit \div 2, horizontalEnergy |-> Unit \div 2]
        ELSE [verticalEnergy |-> Scaled(verticalSum, count),
              horizontalEnergy |-> Scaled(horizontalSum, count)]
  IN Energy(SumOf([idx \in interior(width, height) |-> MathAbs(gx(idx))]),
            SumOf([idx \in interior(width, height) |-> MathAbs(gy(idx))]),
            Cardinality(interior(width, height)))

\* Math.sqrt(gx * gx + gy * gy) of the simplified Sobel gradient at idx.
gradientMagnitude(grayscale, width, idx) ==
  IF \E o \in { 0 - 1, 1, 0 - width, width } : grayscale[idx + o] = NaN THEN NaN
  ELSE Sqrt2(grayscale[idx + 1] - grayscale[idx - 1],
             grayscale[idx + width] - grayscale[idx - width])

analyzeRidgeDensity(grayscale, width, height) ==
  LET Density(edgeSum, count) ==
        \* avgMagnitude / 0.2 is five times avgMagnitude
        MinOne(JsTimes(JsOver(edgeSum, count), 5))
  IN Density(SumOf([idx \in interior(width, height) |->
                      gradientMagnitude(grayscale, width, idx)]),
             Cardinality(interior(width, height)))

\* One row of the run-length loop: acc counts totalRunLength and runCount.
\* (The test on acc.runCount never holds: it has acc evaluated at each step.)
RECURSIVE runLoop(_, _, _, _, _, _)
runLoop(grayscale, width, y, x, runLength, acc) ==
  IF x >= width \/ acc.runCount < 0
  THEN [totalRunLength |-> acc.totalRunLength + runLength,
        runCount |-> acc.runCount + 1]
  ELSE IF /\ grayscale[y * width + x] # NaN
          /\ grayscale[y * width + x - 1] # NaN
          /\ Abs(grayscale[y * width + x] - grayscale[y * width + x - 1]) < 100
  THEN runLoop(grayscale, width, y, x + 1, runLength + 1, acc)
  ELSE runLoop(grayscale, width, y, x + 1, 1,
               [totalRunLength |-> acc.totalRunLength + runLength,
                runCount |-> acc.runCount + 1])

RECURSIVE rowLoop(_, _, _, _, _)
rowLoop(grayscale, width, height, y, acc) ==
  IF y >= height \/ acc.runCount < 0 THEN acc
  ELSE rowLoop(grayscale, width, height, y + 1,
               runLoop(grayscale, width, y, 1, 1, acc))

analyzePlateSize(grayscale, width, height) ==
  LET Size(runs) ==
        MinOne(JsTimes(JsOver(JsOver(runs.totalRunLength * Unit, runs.runCount),
                              width), 3))
  IN Size(rowLoop(grayscale, width, height, 0,
                  [totalRunLength |-> 0, runCount |-> 0]))

analyzeColorStats(grayscale) ==
  LET n == Cardinality(DOMAIN grayscale)
      Variance(mean) ==
        [variance |->
           MinOne(JsTimes(
             JsOver(IF mean = NaN THEN NaN
                    ELSE SumOf([i \in DOMAIN grayscale |->
                                  Mul(grayscale[i] - mean, grayscale[i] - mean)]),
                    n), 10)),
         mean |-> mean]
  IN Variance(JsOver(SumOf(grayscale), n))

\* The hue, in degrees, of one pixel whose channels differ by more than
\* 0.01 (three levels of 255): the ratios are those of the channel levels.
pixelHue(r, g, b) ==
  LET max == Max(r, Max(g, b))
      delta == max - Min(r, Min(g, b))
      Sector(hue) == JsMod(hue * 60 + 360 * Unit, 360 * Unit)
  IN Sector(IF max = r THEN JsMod(Div(g - b, delta), 6 * Unit)
            ELSE IF max = g THEN Div(b - r, delta) + 2 * Unit
            ELSE Div(r - g, delta) + 4 * Unit)

analyzeDominantHue(pixels) ==
  LET Coloured(px) == Max(px[1], Max(px[2], px[3])) - Min(px[1], Min(px[2], px[3])) >= 3
      Mean(counted) ==
        IF counted # {}
        THEN SumOf([i \in counted |->
                      pixelHue(pixels[i][1], pixels[i][2], pixels[i][3])])
               \div Cardinality(counted)
        ELSE 0
  IN Mean({ i \in 1..Len(pixels) : Coloured(pixels[i]) })

\* Math.floor(angle / binSize) % 8 of angle = Math.atan2(gy, gx), moved into
\* [0, 2 pi): the eighth of the circle the direction (gx, gy) points into.
binIndex(gx, gy) ==
  IF gx > 0 /\ gy >= 0 THEN (IF gy < gx THEN 0 ELSE 1)
  ELSE IF gx <= 0 /\ gy > 0 THEN (IF 0 - gx < gy THEN 2 ELSE 3)
  ELSE IF gx < 0 /\ gy <= 0 THEN (IF 0 - gy < 0 - gx THEN 4 ELSE 5)
  ELSE (IF gx < 0 - gy THEN 6 ELSE 7)

analyzeEdgeOrientations(grayscale, width, height) ==
  LET Bin(idx) == binIndex(grayscale[idx + 1] - grayscale[idx - 1],
                           grayscale[idx + width] - grayscale[idx - width])
      Histogram(counted) ==
        [b \in 0..7 |->
           SumOf([idx \in { i \in counted : Bin(i) = b } |->
                    gradientMagnitude(grayscale, width, idx)])]
      Normalised(bins, total) ==
        IF total > 0 THEN [b \in 0..7 |-> Div(bins[b], total)] ELSE bins
      Totalled(bins) == Normalised(bins, SumOf(bins))
  IN Totalled(Histogram({ idx \in interior(width, height) :
                            JsGt(gradientMagnitude(grayscale, width, idx), 20) }))

\* extract(texture), under the pixel density d of the host p5 instance: the
\* feature vector of the pixels texture.loadPixels() loads.
extract(texture, d) ==
  LET Measure(pixels, grayscale, width, height) ==
        [verticalEnergy |->
           analyzeDirectionalEnergy(grayscale, width, height).verticalEnergy,
         horizontalEnergy |->
           analyzeDirectionalEnergy(grayscale, width, height).horizontalEnergy,
         ridgeDensity |-> analyzeRidgeDensity(grayscale, width, height),
         plateSize |-> analyzePlateSize(grayscale, width, height),
         colorVariance |-> analyzeColorStats(grayscale).variance,
         meanLuminance |-> analyzeColorStats(grayscale).mean,
         dominantHue |-> analyzeDominantHue(pixels),
         edgeOrientations |-> analyzeEdgeOrientations(grayscale, width, height)]
  IN Measure(loadPixels(texture).pixels,
             toGrayscale(loadPixels(texture).pixels,
                         texture.width * d, texture.height * d),
             texture.width * d, texture.height * d)

(***************************************************************************)
(* The species classifier.                                                 *)
(***************************************************************************)

\* Object.keys of a species' features literal, in insertion order.
FeatureNames ==
  << "verticalEnergy", "horizontalEnergy", "ridgeDensity", "plateSize",
     "colorVariance" >>

\* features.ts: the ranges, in thousandths.
speciesFeatureRanges ==
  [pine |->
     [species |-> "pine",
      features |-> [verticalEnergy |-> << 500, 850 >>,
                    horizontalEnergy |-> << 100, 400 >>,
                    ridgeDensity |-> << 300, 600 >>,
                    plateSize |-> << 150, 400 >>,
                    colorVariance |-> << 150, 400 >>],
      confidenceThreshold |-> 600],
   oak |->
     [species |-> "oak",
      features |-> [verticalEnergy |-> << 300, 600 >>,
                    horizontalEnergy |-> << 250, 550 >>,
                    ridgeDensity |-> << 500, 850 >>,
                    plateSize |-> << 200, 500 >>,
                    colorVariance |-> << 250, 500 >>],
      confidenceThreshold |-> 550],
   birch |->
     [species |-> "birch",
      features |-> [verticalEnergy |-> << 50, 300 >>,
                    horizontalEnergy |-> << 400, 800 >>,
                    ridgeDensity |-> << 50, 250 >>,
                    plateSize |-> << 0, 150 >>,
                    colorVariance |-> << 100, 350 >>],
      confidenceThreshold |-> 650],
   maple |->
     [species |-> "maple",
      features |-> [verticalEnergy |-> << 350, 650 >>,
                    horizontalEnergy |-> << 150, 450 >>,
                    ridgeDensity |-> << 250, 500 >>,
                    plateSize |-> << 200, 450 >>,
                    colorVariance |-> << 150, 350 >>],
      confidenceThreshold |-> 550],
   cherry |->
     [species |-> "cherry",
      features |-> [verticalEnergy |-> << 100, 350 >>,
                    horizontalEnergy |-> << 300, 600 >>,
                    ridgeDensity |-> << 50, 200 >>,
                    plateSize |-> << 0, 200 >>,
                    colorVariance |-> << 100, 300 >>],
      confidenceThreshold |-> 600]]

\* getDefinedSpecies(): Object.keys(speciesFeatureRanges), in insertion order.
getDefinedSpecies == << "pine", "oak", "birch", "maple", "cherry" >>

\* adjustmentSuggestions: the static table.
adjustmentSuggestions ==
  [verticalEnergy |->
     [increase |-> "Increase direction.verticalBias or add more ridged noise",
      decrease |-> "Decrease direction.verticalBias or reduce ridge intensity"],
   horizontalEnergy |->
     [increase |-> "Increase direction.horizontalBias",
      decrease |-> "Decrease direction.horizontalBias"],
   ridgeDensity |->
     [increase |-> "Increase ridgeIntensity or noise.octaves",
      decrease |-> "Decrease ridgeIntensity or reduce contrast"],
   plateSize |->
     [increase |-> "Decrease voronoi.cellDensity (larger cells)",
      decrease |-> "Increase voronoi.cellDensity (smaller cells)"],
   colorVariance |->
     [increase |-> "Increase contrast or add more noise detail",
      decrease |-> "Decrease contrast or reduce noise.persistence"]]

\* "const partialScore = Math.max(0, 1 - distance / rangeSize)": Math.abs,
\* Math.min, the division and Math.max all give NaN on NaN.
partialScore(value, range) ==
  LET rangeSize == range[2] - range[1]
      distance == Min(Abs(value - range[1]), Abs(value - range[2]))
  IN IF value = NaN THEN NaN
     ELSE Max(0, Unit - JsDiv(distance, rangeSize))

RECURSIVE scoreLoop(_, _, _, _)
scoreLoop(features, ranges, i, acc) ==
  IF i > Len(FeatureNames) THEN acc
  ELSE LET key == FeatureNames[i]
           value == features[key]
           range == ranges[key]
       IN scoreLoop(features, ranges, i + 1,
            IF JsGe(value, range[1]) /\ JsLe(value, range[2])
            THEN [matches |-> acc.matches + 1, total |-> acc.total + 1,
                  weightedScore |-> JsAdd(acc.weightedScore, Unit)]
            ELSE [matches |-> acc.matches, total |-> acc.total + 1,
                  weightedScore |->
                    JsAdd(acc.weightedScore,
                          JsMul(partialScore(value, range), Unit \div 2))])

scoreAgainstRanges(features, ranges) ==
  LET Result(acc) ==
        [score |-> IF acc.total > 0
                   THEN (IF acc.weightedScore = NaN THEN NaN
                         ELSE acc.weightedScore \div acc.total)
                   ELSE 0,
         matches |-> acc.matches, total |-> acc.total]
  IN Result(scoreLoop(features, ranges, 1,
                      [matches |-> 0, total |-> 0, weightedScore |-> 0]))

RECURSIVE mismatchLoop(_, _, _)
mismatchLoop(features, ranges, i) ==
  IF i > Len(FeatureNames) THEN << >>
  ELSE LET key == FeatureNames[i]
           value == features[key]
           range == ranges[key]
       IN (IF JsLt(value, range[1]) \/ JsGt(value, range[2])
           THEN << [feature |-> key, actual |-> value, expected |-> range] >>
           ELSE << >>) \o mismatchLoop(features, ranges, i + 1)

findMismatches(features, ranges) == mismatchLoop(features, ranges, 1)

\* The comparator given to sort; sort reads a NaN result as +0.
compare(a, b) ==
  LET v == JsSub(b.confidence, a.confidence) IN IF v = NaN THEN 0 ELSE v

\* Array.prototype.sort is stable: an element goes behind every element the
\* comparator does not order after it.
RECURSIVE insert(_, _)
insert(sorted, x) ==
  IF sorted = << >> THEN << x >>
  ELSE IF compare(Head(sorted), x) > 0 THEN << x >> \o sorted
  ELSE << Head(sorted) >> \o insert(Tail(sorted), x)

RECURSIVE sort(_)
sort(scores) ==
  IF scores = << >> THEN << >>
  ELSE insert(sort(SubSeq(scores, 1, Len(scores) - 1)), scores[Len(scores)])

\* classify, from the feature vector extract(texture) returned.
classify(features) ==
  LET scores == [i \in 1..Len(getDefinedSpecies) |->
                   [species |-> getDefinedSpecies[i],
                    confidence |->
                      scoreAgainstRanges(features,
                        speciesFeatureRanges[getDefinedSpecies[i]].features).score]]
      Sorted(s) ==
        [primary |-> s[1], alternatives |-> Tail(s),
         mismatches |->
           findMismatches(features, speciesFeatureRanges[s[1].species].features)]
  IN Sorted(sort(scores))

(***************************************************************************)
(* Init: two generators constructed on one p5 instance, without overrides. *)
(***************************************************************************)

Init ==
  \E sp \in Species :
    LET c1 == construct(PaletteHeap, sp, 1, Null)
        c2 == construct(c1.heap, "pine", 2, Null)
    IN /\ heap = c2.heap
       /\ held = {}
       /\ noiseSeed = Unseeded
       /\ species = [g \in Gens |-> IF g = "g1" THEN sp ELSE "pine"]
       /\ params = [g \in Gens |-> IF g = "g1" THEN c1.addr ELSE c2.addr]
       /\ graphics = [g \in Gens |-> Null]
       /\ buffers = << >>
       /\ tasks = << >>
       /\ calls = 0
       /\ lastCall = None
       /\ history = {}
       /\ resolved = None
       /\ lastGood = [g \in Gens |-> None]
       /\ noiseCall = None
       /\ regCall = None
       /\ classifierCall = None
       /\ timers = << >>
       /\ panel = None
       /\ pixelDensity = 1
       /\ paramPanel = Null

(***************************************************************************)
(* BarkGenerator.generate / BirchBark.generate                             *)
(***************************************************************************)
Generate(g, width, height) ==
  LET fresh == NeedsNewBuffer(g, width, height)
      bufs == IF fresh THEN Append(buffers, createGraphics(width, height))
              ELSE buffers
      gid == IF fresh THEN Len(buffers) + 1 ELSE graphics[g]
      ps == DerefParams(heap, params[g])
      seed == reseed(noiseSeed, ps)
      Drawn(loaded) ==
        [loaded EXCEPT !.pixels =
           generate_loops(species[g], ps, seed, width, height, @)]
      \* the state once g.updatePixels() has run and g is returned
      Return(final) ==
        /\ buffers' = [bufs EXCEPT ![gid] = final]
        /\ history' = history \cup
             { [sp |-> species[g], params |-> ps, width |-> width,
                height |-> height, pixels |-> final.canvas,
                before |-> noiseSeed] }
        /\ lastGood' = [lastGood EXCEPT ![g] =
                          [kind |-> "render", buf |-> gid, canvas |-> final.canvas]]
  IN /\ calls < MaxCalls
     /\ calls' = calls + 1
     /\ graphics' = [graphics EXCEPT ![g] = gid]
     /\ noiseSeed' = seed
     /\ Return(updatePixels(Drawn(loadPixels(bufs[gid]))))
     /\ tasks' = Interleaved(tasks)
     /\ lastCall' = [kind |-> "generate", gen |-> g, width |-> width,
                     height |-> height, outcome |-> "returned",
                     allocated |-> fresh, graphicsBefore |-> graphics[g],
                     paramsBefore |-> ps]
     /\ UNCHANGED << heap, held, species, params, resolved, noiseCall, regCall,
                     classifierCall, timers, panel, pixelDensity,
                  paramPanel >>

\* A callback that is not told of the completion.
onProgress_unfinished(progress, percent, status) ==
  IF status = "Complete!" THEN progress
  ELSE Append(progress, [percent |-> percent, status |-> status])

\* "onProgress?.(percent, status)": progress lists the calls made so far.
onProgress(progress, percent, status) ==
  Append(progress, [percent |-> percent, status |-> status])

(***************************************************************************)
(* BarkGenerator.generateAsync: the part that runs before it returns its   *)
(* promise, and processChunk, run once per animation frame.                *)
(***************************************************************************)
GenerateAsyncStart(g, width, height) ==
  LET fresh == NeedsNewBuffer(g, width, height)
      bufs == IF fresh THEN Append(buffers, createGraphics(width, height))
              ELSE buffers
      gid == IF fresh THEN Len(buffers) + 1 ELSE graphics[g]
      ps == DerefParams(heap, params[g])
      seed == reseed(noiseSeed, ps)
      loaded == loadPixels(bufs[gid])
  IN /\ calls < MaxCalls
     /\ calls' = calls + 1
     /\ graphics' = [graphics EXCEPT ![g] = gid]
     /\ buffers' = [bufs EXCEPT ![gid] = loaded]
     /\ noiseSeed' = seed
     /\ tasks' = Append(Interleaved(tasks),
          [gen |-> g, g |-> gid, arr |-> loaded.arr, width |-> width,
           height |-> height, currentRow |-> 0,
           startParams |-> ps, seed |-> seed, clean |-> TRUE, seedOk |-> TRUE,
           \* "onProgress?.(0, 'Starting...')"
           progress |-> onProgress(<< >>, 0, "Starting...")])
     /\ lastCall' = [kind |-> "generateAsync", gen |-> g, width |-> width,
                     height |-> height, outcome |-> "promise",
                     allocated |-> fresh, graphicsBefore |-> graphics[g],
                     paramsBefore |-> ps]
     /\ UNCHANGED << heap, held, species, params, history, resolved, lastGood,
                     noiseCall, regCall, classifierCall, timers,
                     panel, pixelDensity,
                  paramPanel >>

RemoveAt(seq, i) == SubSeq(seq, 1, i - 1) \o SubSeq(seq, i + 1, Len(seq))

ProcessChunk(i) ==
  LET t == tasks[i]
      endRow == Min(t.currentRow + chunkSize, t.height)
      ps == DerefParams(heap, params[t.gen])
      \* pixels is the array captured at the start; it is the buffer's
      \* array only while no later loadPixels() has replaced it
      attached == buffers[t.g].arr = t.arr
      sampled == t.width > 0 /\ endRow > t.currentRow
      ok == t.seedOk /\ (sampled => noiseSeed = t.seed)
      \* "const percent = (currentRow / height) * 100; onProgress?.(percent, ...)"
      percent == JsTimes(JsOver(endRow * Unit, t.height), 100)
      reported == onProgress(t.progress, percent, "Generating...")
      others == [j \in 1..Len(tasks) |->
                   IF j = i THEN [t EXCEPT !.currentRow = endRow, !.seedOk = ok,
                                           !.progress = reported]
                   ELSE [tasks[j] EXCEPT !.clean = FALSE]]
      \* "if (currentRow < height) requestAnimationFrame(processChunk)"
      Yield(drawn) ==
        /\ tasks' = others
        /\ buffers' = [buffers EXCEPT ![t.g] = drawn]
        /\ UNCHANGED << resolved, lastGood >>
      \* "else": g.updatePixels() has run, resolve(g)
      Resolve(final) ==
        /\ tasks' = RemoveAt(others, i)
        /\ buffers' = [buffers EXCEPT ![t.g] = final]
        /\ resolved' = [kind |-> "resolved", gen |-> t.gen,
                        sp |-> species[t.gen], params |-> t.startParams,
                        width |-> t.width, height |-> t.height,
                        pixels |-> final.canvas, clean |-> t.clean,
                        seed |-> t.seed, seedOk |-> ok,
                        attached |-> attached,
                        \* "onProgress?.(100, 'Complete!')"
                        progress |-> onProgress(reported, 100 * Unit, "Complete!")]
        /\ lastGood' = [lastGood EXCEPT ![t.gen] =
              [kind |-> "render", buf |-> t.g, canvas |-> final.canvas]]
      Chunk(buf) ==
        IF attached
        THEN [buf EXCEPT !.pixels =
                processChunk_loops(species[t.gen], ps, noiseSeed,
                                   t.width, t.currentRow, endRow, @)]
        ELSE buf
  IN IF endRow < t.height
     THEN Yield(Chunk(buffers[t.g]))
     ELSE Resolve(updatePixels(Chunk(buffers[t.g])))

Frame(i) ==
  /\ ProcessChunk(i)
  /\ UNCHANGED << heap, held, noiseSeed, species, params, graphics, calls,
                  lastCall, history, noiseCall, regCall, classifierCall, timers,
                  panel, pixelDensity,
                  paramPanel >>

(***************************************************************************)
(* BarkGenerator.setParams / resetToDefaults                               *)
(***************************************************************************)
SetParams(g, upd) ==
  LET a == AllocTree(heap, upd)
      r == setParams(a.heap, params[g], a.addr)
  IN /\ calls < MaxCalls
     /\ calls' = calls + 1
     /\ heap' = r.heap
     /\ held' = held \cup { a.addr }
     /\ params' = [params EXCEPT ![g] = r.addr]
     /\ tasks' = Interleaved(tasks)
     /\ lastCall' = [kind |-> "setParams", gen |-> g, update |-> upd,
                     paramsBefore |-> DerefParams(heap, params[g])]
     /\ UNCHANGED << noiseSeed, species, graphics, buffers, history, resolved,
                     lastGood, noiseCall, regCall, classifierCall, timers,
                     panel, pixelDensity,
                  paramPanel >>

ResetToDefaults(g, seed) ==
  LET d == createDefaultParams(heap, species[g], seed)
  IN /\ calls < MaxCalls
     /\ calls' = calls + 1
     /\ heap' = d.heap
     /\ params' = [params EXCEPT ![g] = d.addr]
     /\ tasks' = Interleaved(tasks)
     /\ lastCall' = [kind |-> "resetToDefaults", gen |-> g]
     /\ UNCHANGED << held, noiseSeed, species, graphics, buffers, history,
                     resolved, lastGood, noiseCall, regCall, classifierCall, timers,
                     panel, pixelDensity,
                  paramPanel >>

(***************************************************************************)
(* BarkGenerator.export.  The promise is settled by the callback of        *)
(* canvas.toBlob, which is handed a blob or null.                          *)
(***************************************************************************)
NoTexture ==
  [outcome |-> "Error", message |-> "No texture generated. Call generate() first."]

\* An export that makes the buffer it misses.
Export_allocating(g, blob) ==
  /\ calls < MaxCalls
  /\ calls' = calls + 1
  /\ lastCall' = [kind |-> "export", gen |-> g] @@ NoTexture
  /\ buffers' = IF graphics[g] = Null
                THEN Append(buffers, createGraphics(MaxWidth, 1)) ELSE buffers
  /\ graphics' = IF graphics[g] = Null
                 THEN [graphics EXCEPT ![g] = Len(buffers) + 1] ELSE graphics
  /\ tasks' = Interleaved(tasks)
  /\ UNCHANGED << heap, held, noiseSeed, species, params, history, resolved,
                  lastGood, noiseCall, regCall, classifierCall, timers,
                  panel, pixelDensity,
                  paramPanel >>

Export(g, blob) ==
  /\ calls < MaxCalls
  /\ calls' = calls + 1
  /\ lastCall' =
       [kind |-> "export", gen |-> g] @@
       ( IF graphics[g] = Null THEN NoTexture
         ELSE IF blob
         THEN [outcome |-> "resolved", blob |-> buffers[graphics[g]].canvas]
         ELSE [outcome |-> "Error",
               message |-> "Failed to create blob from canvas"] )
  /\ tasks' = Interleaved(tasks)
  /\ UNCHANGED << heap, held, noiseSeed, species, params, graphics, buffers,
                  history, resolved, lastGood, noiseCall, regCall,
                  classifierCall, timers, panel, pixelDensity,
                  paramPanel >>

(***************************************************************************)
(* main.ts: runValidation and the callback it hands to setTimeout.  The    *)
(* callback keeps the buffer runValidation read; the timers have one       *)
(* delay, so they fire in the order they were set.                         *)
(***************************************************************************)
RunValidation(g) ==
  /\ calls < MaxCalls
  /\ calls' = calls + 1
  /\ IF graphics[g] = Null
     THEN /\ UNCHANGED << timers, panel >>
          /\ lastCall' = [kind |-> "runValidation", gen |-> g,
                          outcome |-> "returned", scheduled |-> FALSE]
     ELSE /\ panel' = [kind |-> "loading"]
          /\ timers' = Append(timers, [gen |-> g, graphics |-> graphics[g]])
          /\ lastCall' = [kind |-> "runValidation", gen |-> g,
                          outcome |-> "returned", scheduled |-> TRUE]
  /\ tasks' = Interleaved(tasks)
  /\ UNCHANGED << heap, held, noiseSeed, species, params, graphics, buffers,
                  history, resolved, lastGood, noiseCall, regCall,
                  classifierCall, pixelDensity,
                  paramPanel >>

\* "classifier.classify(graphics)": extract calls graphics.loadPixels().
TimerFires ==
  LET t == Head(timers)
      Shown(features) ==
        /\ classifierCall' = [kind |-> "classify", gen |-> t.gen,
                              texture |-> t.graphics, features |-> features,
                              outcome |-> "returned",
                              result |-> classify(features)]
        \* validationPanel.showClassification(result)
        /\ panel' = [kind |-> "classification", texture |-> t.graphics,
                     features |-> features, result |-> classify(features)]
  IN /\ timers # << >>
     /\ Shown(extract(buffers[t.graphics], pixelDensity))
     /\ buffers' = [buffers EXCEPT ![t.graphics] = loadPixels(@)]
     /\ timers' = Tail(timers)
     /\ tasks' = Interleaved(tasks)
     /\ UNCHANGED << heap, held, noiseSeed, species, params, graphics, calls,
                     lastCall, history, resolved, lastGood, noiseCall, regCall,
                     pixelDensity,
                  paramPanel >>

Next ==
  \/ \E g \in Gens : \E d \in RenderDims(g) : Generate(g, d[1], d[2])
  \/ \E g \in Studied, d \in Dims : GenerateAsyncStart(g, d[1], d[2])
  \/ \E i \in 1..Len(tasks) : Frame(i)
  \/ \E g \in Studied, upd \in Updates : SetParams(g, upd)
  \/ \E g \in Studied, seed \in Seeds : ResetToDefaults(g, seed)

Spec == Init /\ [][Next]_vars

\* The application: it sets the params of one generator, renders, exports
\* and validates its texture.
NextApp ==
  \/ \E g \in Studied, upd \in Updates : SetParams(g, upd)
  \/ \E g \in Studied, d \in Dims : Generate(g, d[1], d[2])
  \/ \E g \in Studied, blob \in BOOLEAN : Export(g, blob)
  \/ \E g \in Studied : RunValidation(g)
  \/ TimerFires

SpecApp == Init /\ [][NextApp]_vars

(***************************************************************************)
(* Properties of rendering.                                                *)
(***************************************************************************)

\* What generate(width, height) returns for a generator of species sp whose
\* params hold the value ps: the canvas of the buffer.
OneShot(sp, ps, width, height) ==
  generate_loops(sp, ps, reseed(Unseeded, ps), width, height,
                 BlankPixels(width, height))

SameRequest(a, b) ==
  /\ a.sp = b.sp
  /\ a.params = b.params
  /\ a.width = b.width
  /\ a.height = b.height

\* C1: a generateAsync that ran to completion with nothing between its
\* chunks resolved with the pixels generate gives for the same species,
\* params and size.
C1_AsyncEqualsGenerate ==
  (resolved.kind = "resolved" /\ resolved.clean)
    => resolved.pixels =
         OneShot(resolved.sp, resolved.params, resolved.width, resolved.height)

\* C2: two generate calls with the same species, params and size returned
\* the same pixels, whatever state the shared noise source was in before.
C2_GenerateReproducible ==
  \A a, b \in history : SameRequest(a, b) => a.pixels = b.pixels

\* C2's case: the same request served twice, the noise source having been
\* left in different states before the two calls.
C2_Witness ==
  \E a, b \in history :
    /\ SameRequest(a, b)
    /\ a.before # b.before
    /\ a.width > 0 /\ a.height > 0

\* C3: every noise sample a progressive render took, it took while the noise
\* source held the seed that render set at its start.
C3_SamplesUnderOwnSeed ==
  /\ \A i \in 1..Len(tasks) : tasks[i].seedOk
  /\ resolved.kind = "resolved" => resolved.seedOk

\* C4: a progressive render resolved with the one-shot render of the params
\* it started with, whatever was called on the generator between its chunks.
\* Stated for the species whose one-shot and progressive loops agree and for
\* renders that took all their samples under their own seed and still wrote
\* to their buffer's pixel array at the end, so that only a change of the
\* generator's params is left as a cause.
C4_InFlightRenderIsolated ==
  ( /\ resolved.kind = "resolved"
    /\ resolved.sp # "birch"
    /\ resolved.seedOk
    /\ resolved.attached )
    => resolved.pixels =
         OneShot(resolved.sp, resolved.params, resolved.width, resolved.height)

\* C5: getGraphics() is null or the buffer of the generator's last completed
\* render, holding that render's complete result.
C5_GraphicsNullOrLastResult ==
  \A g \in Gens :
    \/ graphics[g] = Null
    \/ /\ lastGood[g].kind = "render"
       /\ lastGood[g].buf = graphics[g]
       /\ buffers[graphics[g]].canvas = lastGood[g].canvas

\* C8: a generate or generateAsync call with a zero width or height ended
\* with InvalidParameter, allocated no buffer and left the generator's
\* buffer reference as it was.
C8_ZeroSizeRejected ==
  ( /\ lastCall.kind \in { "generate", "generateAsync" }
    /\ (lastCall.width = 0 \/ lastCall.height = 0) )
    => /\ lastCall.outcome = "InvalidParameter"
       /\ ~ lastCall.allocated
       /\ graphics[lastCall.gen] = lastCall.graphicsBefore

(***************************************************************************)
(* Ownership of params: the generator and the callers that hold references *)
(* to params objects (the application, the parameter panel).  No rendering.*)
(***************************************************************************)

\* Params objects callers pass to a constructor.
Overrides == { [noise |-> [scale |-> 50, octaves |-> 2, lacunarity |-> 2000,
                           persistence |-> 500, seed |-> 7]],
               [contrast |-> 1000] }

\* Partial updates callers pass to setParams.
OwnUpdates == Updates \cup { [colors |-> [baseColor |-> << 1, 2, 3 >>]],
                             [contrast |-> 1000, noise |-> [octaves |-> 2]] }

\* What callers assign to, and the values they assign.
Paths == { << "contrast" >>, << "noise", "scale" >>,
           << "colors", "colorVariation" >>, << "colors", "baseColor" >> }
AssignedValues == { 777 }

AllParams == [g \in Gens |-> DerefParams(heap, params[g])]

\* new XBark(p, over), the generator variable g now naming the new object.
Construct(g, over, seed) ==
  LET a == AllocTree(heap, over)
      c == construct(a.heap, species[g], seed, a.addr)
  IN /\ calls < MaxCalls
     /\ calls' = calls + 1
     /\ heap' = c.heap
     /\ held' = held \cup { a.addr }
     /\ params' = [params EXCEPT ![g] = c.addr]
     /\ graphics' = [graphics EXCEPT ![g] = Null]
     /\ lastGood' = [lastGood EXCEPT ![g] = None]
     /\ lastCall' = [kind |-> "construct", gen |-> g, over |-> over]
     /\ UNCHANGED << noiseSeed, species, buffers, tasks, history, resolved,
                     noiseCall, regCall, classifierCall, timers,
                     panel, pixelDensity,
                  paramPanel >>

GetParams(g) ==
  LET r == getParams(heap, params[g])
  IN /\ calls < MaxCalls
     /\ calls' = calls + 1
     /\ heap' = r.heap
     /\ held' = held \cup { r.addr }
     /\ lastCall' = [kind |-> "getParams", gen |-> g, paramsBefore |-> AllParams]
     /\ UNCHANGED << noiseSeed, species, params, graphics, buffers, tasks,
                     history, resolved, lastGood, noiseCall, regCall, classifierCall, timers,
                     panel, pixelDensity,
                  paramPanel >>

\* A caller changes, in place, an object it passed in or got back.
Mutate(r, path, v) ==
  /\ calls < MaxCalls
  /\ Assignable(heap, r, path)
  /\ calls' = calls + 1
  /\ heap' = assign(heap, r, path, v)
  /\ lastCall' = [kind |-> "mutate", ref |-> r, path |-> path,
                  paramsBefore |-> AllParams]
  /\ UNCHANGED << held, noiseSeed, species, params, graphics, buffers, tasks,
                  history, resolved, lastGood, noiseCall, regCall, classifierCall, timers,
                  panel, pixelDensity,
                  paramPanel >>

NextOwn ==
  \/ \E g \in Studied, over \in Overrides, seed \in Seeds : Construct(g, over, seed)
  \/ \E g \in Studied : GetParams(g)
  \/ \E g \in Studied, upd \in OwnUpdates : SetParams(g, upd)
  \/ \E g \in Studied, seed \in Seeds : ResetToDefaults(g, seed)
  \/ \E r \in held, path \in Paths, v \in AssignedValues : Mutate(r, path, v)

SpecOwn == Init /\ [][NextOwn]_vars

StructNames == Range(StructFields)

\* C6: after setParams(update) every leaf field of every nested struct holds
\* the update's value if the update names it and its prior value otherwise,
\* and so does every top-level scalar.
C6_SetParamsMergesDeep ==
  lastCall.kind = "setParams" =>
    LET now == DerefParams(heap, params[lastCall.gen])
        was == lastCall.paramsBefore
        upd == lastCall.update
        Named(k) == IF k \in DOMAIN upd THEN DOMAIN upd[k] ELSE {}
    IN /\ DOMAIN now = DOMAIN was
       /\ \A k \in StructNames :
            /\ DOMAIN now[k] = DOMAIN was[k] \cup Named(k)
            /\ \A f \in DOMAIN was[k] :
                 now[k][f] = IF f \in Named(k) THEN upd[k][f] ELSE was[k][f]
       /\ \A k \in DOMAIN was \ StructNames :
            now[k] = IF k \in DOMAIN upd THEN upd[k] ELSE was[k]

\* C6's case: an update that names some but not all leaf fields of a nested
\* struct, with a value that differs from the prior one, has been applied.
C6_Witness ==
  /\ lastCall.kind = "setParams"
  /\ \E k \in StructNames \cap DOMAIN lastCall.update :
       /\ DOMAIN lastCall.update[k] # DOMAIN lastCall.paramsBefore[k]
       /\ \E f \in DOMAIN lastCall.update[k] :
            lastCall.update[k][f] # lastCall.paramsBefore[k][f]
       /\ DerefParams(heap, params[lastCall.gen])[k] # lastCall.paramsBefore[k]

\* C7: a caller's change to an object it passed to the generator or got
\* from getParams() leaves the value of every generator's params as it was.
C7_ParamsOwned ==
  lastCall.kind = "mutate" => AllParams = lastCall.paramsBefore

(***************************************************************************)
(* The fractal-sum functions called on their own.                          *)
(***************************************************************************)

MaxOctaves == 2
NoiseKinds == { "fbm", "ridgedNoise", "turbulence", "billowedNoise" }
Coords == { 0, Unit \div 2, Unit }
NoiseInputs ==
  [scale : { 15, 50 }, octaves : 0..MaxOctaves, lacunarity : { 2 * Unit },
   persistence : { Unit \div 2 }, seed : { 1 }]

\* The functions have no throw statement: a call ends by returning.
Returned(kind, x, y, ps, v) ==
  [kind |-> kind, x |-> x, y |-> y, params |-> ps,
   outcome |-> "returned", value |-> v]

allButNoiseCall ==
  << heap, held, noiseSeed, species, params, graphics, buffers, tasks, calls,
     lastCall, history, resolved, lastGood, regCall, classifierCall, timers,
     panel, pixelDensity,
                  paramPanel >>

Fbm(x, y, ps) ==
  /\ noiseCall' = Returned("fbm", x, y, ps, fbm(noiseSeed, x, y, ps))
  /\ UNCHANGED allButNoiseCall
RidgedNoise(x, y, ps) ==
  /\ noiseCall' = Returned("ridgedNoise", x, y, ps,
                           ridgedNoise(noiseSeed, x, y, ps))
  /\ UNCHANGED allButNoiseCall
Turbulence(x, y, ps) ==
  /\ noiseCall' = Returned("turbulence", x, y, ps,
                           turbulence(noiseSeed, x, y, ps))
  /\ UNCHANGED allButNoiseCall
BillowedNoise(x, y, ps) ==
  /\ noiseCall' = Returned("billowedNoise", x, y, ps,
                           billowedNoise(noiseSeed, x, y, ps))
  /\ UNCHANGED allButNoiseCall

NextNoise ==
  \/ \E x \in Coords, y \in Coords, ps \in NoiseInputs : Fbm(x, y, ps)
  \/ \E x \in Coords, y \in Coords, ps \in NoiseInputs : RidgedNoise(x, y, ps)
  \/ \E x \in Coords, y \in Coords, ps \in NoiseInputs : Turbulence(x, y, ps)
  \/ \E x \in Coords, y \in Coords, ps \in NoiseInputs : BillowedNoise(x, y, ps)

SpecNoise == Init /\ [][NextNoise]_vars

\* C9: a call of fbm, ridgedNoise, turbulence or billowedNoise with zero
\* octaves ended with InvalidParameter and returned no value.
C9_ZeroOctavesRejected ==
  (noiseCall.kind \in NoiseKinds /\ noiseCall.params.octaves = 0)
    => noiseCall.outcome = "InvalidParameter"

(***************************************************************************)
(* The species registry.  A name is the sequence of its characters, so     *)
(* that toLowerCase() is computed and not assumed.                         *)
(***************************************************************************)

UpperCase == << "A", "B", "C", "D", "E", "F", "G", "H", "I", "J", "K", "L", "M",
               "N", "O", "P", "Q", "R", "S", "T", "U", "V", "W", "X", "Y", "Z" >>
LowerCase == << "a", "b", "c", "d", "e", "f", "g", "h", "i", "j", "k", "l", "m",
               "n", "o", "p", "q", "r", "s", "t", "u", "v", "w", "x", "y", "z" >>
toLowerCase(name) ==
  [i \in 1..Len(name) |->
     IF \E j \in 1..Len(UpperCase) : UpperCase[j] = name[i]
     THEN LowerCase[CHOOSE j \in 1..Len(UpperCase) : UpperCase[j] = name[i]]
     ELSE name[i]]

\* The keys of the speciesRegistry object literal.
Spelling ==
  [pine |-> << "p", "i", "n", "e" >>, oak |-> << "o", "a", "k" >>, birch |-> << "b", "i", "r", "c", "h" >>,
   maple |-> << "m", "a", "p", "l", "e" >>, cherry |-> << "c", "h", "e", "r", "r", "y" >>]
\* Object.keys(speciesRegistry)
availableSpecies == SpeciesNames

\* The all-lower-case properties speciesRegistry inherits from
\* Object.prototype: "constructor" (the function Object) and "__proto__"
\* (Object.prototype itself).
ConstructorKey == << "c", "o", "n", "s", "t", "r", "u", "c", "t", "o", "r" >>
ProtoKey == << "_", "_", "p", "r", "o", "t", "o", "_", "_" >>

\* speciesRegistry[key]: own properties first, then the prototype's.
registryLookup(key) ==
  IF \E s \in Species : Spelling[s] = key
  THEN [kind |-> "class", species |-> CHOOSE s \in Species : Spelling[s] = key]
  ELSE IF key = ConstructorKey THEN [kind |-> "Object"]
  ELSE IF key = ProtoKey THEN [kind |-> "Object.prototype"]
  ELSE [kind |-> "undefined"]

\* new Error(`Unknown species: ${species}. Available: ${...join(', ')}`)
UnknownSpecies(name) ==
  [outcome |-> "Error", unknown |-> name, available |-> availableSpecies]

\* Names callers pass.
Names == { << "p", "i", "n", "e" >>,
           << "P", "i", "n", "e" >>,
           << "O", "A", "K" >>,
           << "b", "i", "r", "c", "h" >>,
           << "m", "a", "p", "l", "e" >>,
           << "C", "h", "e", "r", "r", "y" >>,
           << "e", "l", "m" >>,
           << "c", "o", "n", "s", "t", "r", "u", "c", "t", "o", "r" >>,
           << "C", "o", "n", "s", "t", "r", "u", "c", "t", "o", "r" >>,
           << "_", "_", "p", "r", "o", "t", "o", "_", "_" >> }

\* createGenerator(p, species): the generator variable takes the result when
\* it is a generator.  new Object(p, params) returns p; Object.prototype is
\* no constructor, so new throws a TypeError that names nothing.
CreateGenerator(g, name, seed) ==
  LET found == registryLookup(toLowerCase(name))
      c == construct(heap, found.species, seed, Null)
  IN /\ calls < MaxCalls
     /\ calls' = calls + 1
     /\ IF found.kind = "class"
        THEN /\ heap' = c.heap
             /\ species' = [species EXCEPT ![g] = found.species]
             /\ params' = [params EXCEPT ![g] = c.addr]
             /\ graphics' = [graphics EXCEPT ![g] = Null]
             /\ lastGood' = [lastGood EXCEPT ![g] = None]
             /\ regCall' = [kind |-> "createGenerator", name |-> name,
                            outcome |-> "returned", species |-> found.species]
        ELSE /\ UNCHANGED << heap, species, params, graphics, lastGood >>
             /\ regCall' =
                  [kind |-> "createGenerator", name |-> name] @@
                  ( CASE found.kind = "undefined" -> UnknownSpecies(name)
                      [] found.kind = "Object" ->
                           [outcome |-> "returned", species |-> "none"]
                      [] found.kind = "Object.prototype" ->
                           [outcome |-> "TypeError"] )
     /\ UNCHANGED << held, noiseSeed, buffers, tasks, lastCall, history,
                     resolved, noiseCall, classifierCall, timers,
                     panel, pixelDensity,
                  paramPanel >>

\* getSpeciesDefaults(species): the caller holds the object returned.
GetSpeciesDefaults(name, seed) ==
  LET key == toLowerCase(name)
      known == \E s \in Species : Spelling[s] = key
      sp == CHOOSE s \in Species : Spelling[s] = key
      d == createDefaultParams(heap, sp, seed)
  IN /\ calls < MaxCalls
     /\ calls' = calls + 1
     /\ IF known
        THEN /\ heap' = d.heap
             /\ held' = held \cup { d.addr }
             /\ regCall' = [kind |-> "getSpeciesDefaults", name |-> name,
                            outcome |-> "returned", species |-> sp]
        ELSE /\ UNCHANGED << heap, held >>
             /\ regCall' = [kind |-> "getSpeciesDefaults", name |-> name] @@
                           UnknownSpecies(name)
     /\ UNCHANGED << noiseSeed, species, params, graphics, buffers, tasks,
                     lastCall, history, resolved, lastGood, noiseCall,
                     classifierCall, timers, panel, pixelDensity,
                  paramPanel >>

NextRegistry ==
  \/ \E g \in Studied, name \in Names, seed \in Seeds : CreateGenerator(g, name, seed)
  \/ \E name \in Names, seed \in Seeds : GetSpeciesDefaults(name, seed)

SpecRegistry == Init /\ [][NextRegistry]_vars

\* C10: a call of createGenerator or getSpeciesDefaults with a name that
\* equals a species name up to case served that species, and with any other
\* name ended with an error that carries the name and the list of valid
\* names; so the two functions accept the same names.
C10_NamesResolvedAlike ==
  regCall.kind \in { "createGenerator", "getSpeciesDefaults" } =>
    IF \E s \in Species : Spelling[s] = toLowerCase(regCall.name)
    THEN /\ regCall.outcome = "returned"
         /\ Spelling[regCall.species] = toLowerCase(regCall.name)
    ELSE /\ regCall.outcome = "Error"
         /\ regCall.unknown = regCall.name
         /\ regCall.available = SpeciesNames

\* speciesFeatureRanges[sp]: own properties first, then those inherited from
\* Object.prototype.
rangesLookup(key) ==
  IF \E s \in Species : Spelling[s] = key
  THEN [kind |-> "ranges", species |-> CHOOSE s \in Species : Spelling[s] = key]
  ELSE IF key = ConstructorKey THEN [kind |-> "Object"]
  ELSE IF key = ProtoKey THEN [kind |-> "Object.prototype"]
  ELSE [kind |-> "undefined"]

\* A range test that leaves the bounds out.
featureMatch_exclusive(features, ranges, key) ==
  [value |-> features[key],
   inRange |-> JsGt(features[key], ranges[key][1]) /\
               JsLt(features[key], ranges[key][2]),
   expected |-> ranges[key]]

\* The loop of validate over Object.entries(ranges.features).
featureMatch(features, ranges, key) ==
  [value |-> features[key],
   inRange |-> JsGe(features[key], ranges[key][1]) /\
               JsLe(features[key], ranges[key][2]),
   expected |-> ranges[key]]

\* A choice of suggestion that takes the opposite entry of the table.
suggestion_swapped(features, ranges, key) ==
  IF featureMatch(features, ranges, key).inRange THEN << >>
  ELSE IF JsLt(features[key], ranges[key][1])
  THEN << [key |-> key, text |-> adjustmentSuggestions[key].decrease] >>
  ELSE << [key |-> key, text |-> adjustmentSuggestions[key].increase] >>

\* "if (!inRange) { ... suggestions.push(`${key}: ${adjustment.increase}`) ... }":
\* what one feature adds to suggestions.
suggestion(features, ranges, key) ==
  IF featureMatch(features, ranges, key).inRange THEN << >>
  ELSE IF JsLt(features[key], ranges[key][1])
  THEN << [key |-> key, text |-> adjustmentSuggestions[key].increase] >>
  ELSE << [key |-> key, text |-> adjustmentSuggestions[key].decrease] >>

RECURSIVE suggestionLoop(_, _, _)
suggestionLoop(features, ranges, i) ==
  IF i > Len(FeatureNames) THEN << >>
  ELSE suggestion(features, ranges, FeatureNames[i])
       \o suggestionLoop(features, ranges, i + 1)

\* A threshold test that asks for more than the threshold.
isValid_strict(score, ranges) == JsGt(score, ranges.confidenceThreshold)

\* "isValid: matchResult.score >= ranges.confidenceThreshold"
isValid(score, ranges) == JsGe(score, ranges.confidenceThreshold)

\* validate, with the feature vector extract(texture) returns when line 82
\* is reached.  extracted tells whether it was.  A value found on the
\* prototype chain is truthy and has no features property:
\* Object.entries(undefined) throws a TypeError.
validate(features, name) ==
  LET sp == toLowerCase(name)
      found == rangesLookup(sp)
      Known(ranges) ==
        [outcome |-> "returned", extracted |-> TRUE,
         isValid |-> isValid(scoreAgainstRanges(features, ranges.features).score,
                             ranges),
         confidence |-> scoreAgainstRanges(features, ranges.features).score,
         featureMatches |->
           [key \in { FeatureNames[i] : i \in 1..Len(FeatureNames) } |->
              featureMatch(features, ranges.features, key)],
         suggestions |-> suggestionLoop(features, ranges.features, 1)]
  IN CASE found.kind = "undefined" ->
            [outcome |-> "returned", extracted |-> FALSE, isValid |-> FALSE,
             confidence |-> 0, featureMatches |-> << >>,
             suggestions |-> << [unknown |-> name] >>]
       [] found.kind = "ranges" -> Known(speciesFeatureRanges[found.species])
       [] OTHER -> [outcome |-> "TypeError", extracted |-> TRUE]

(***************************************************************************)
(* Calls of the classifier.  The texture enters classify and validate only *)
(* through extract(texture): a call is made with the feature vector the    *)
(* extractor measures on the texture it is given.  The classifier writes   *)
(* no field after its construction, so a behaviour makes one call.         *)
(***************************************************************************)

\* A buffer painted with the given gray levels, row by row.
Painted(width, height, levels) ==
  [createGraphics(width, height) EXCEPT
     !.canvas = [i \in 1..(width * height) |->
                   << levels[i], levels[i], levels[i], 255 >>]]

\* Textures handed to the classifier: with and without interior pixels.
Textures ==
  { Painted(2, 2, << 128, 128, 128, 128 >>),
    Painted(1, 1, << 200 >>),
    Painted(3, 3, << 128, 128, 128, 128, 128, 128, 128, 128, 128 >>),
    Painted(3, 3, << 0, 128, 255, 0, 128, 255, 0, 128, 255 >>),
    Painted(3, 3, << 0, 0, 0, 128, 128, 128, 255, 255, 255 >>),
    Painted(3, 3, << 100, 110, 120, 100, 110, 120, 105, 115, 125 >>) }

\* Feature vectors of larger textures: values at, inside and outside the
\* bounds of the ranges.
FeatureVectors ==
  [verticalEnergy : { 200, 500, 675, 850, 900 },
   horizontalEnergy : { 250, 400, 500 },
   ridgeDensity : { 100, 300, 450 },
   plateSize : { 100, 275 },
   colorVariance : { 150, 275, 450 },
   meanLuminance : { 500 }]

\* A vector whose score meets pine's confidence threshold exactly: three
\* features in range and two further from it than the range is wide.
ThresholdVectors ==
  { [verticalEnergy |-> 675, horizontalEnergy |-> 250, ridgeDensity |-> 450,
     plateSize |-> 1000, colorVariance |-> 1000, meanLuminance |-> 500] }

Measurements ==
  (FeatureVectors \cup ThresholdVectors) \cup { extract(t, 1) : t \in Textures }

allButClassifierCall ==
  << heap, held, noiseSeed, species, params, graphics, buffers, tasks, calls,
     lastCall, history, resolved, lastGood, noiseCall, regCall, timers,
     panel, pixelDensity,
                  paramPanel >>

Classify(features) ==
  /\ classifierCall = None
  /\ classifierCall' = [kind |-> "classify", features |-> features,
                        outcome |-> "returned", result |-> classify(features)]
  /\ UNCHANGED allButClassifierCall

Validate(features, name) ==
  /\ classifierCall = None
  /\ classifierCall' = [kind |-> "validate", features |-> features,
                        species |-> name,
                        outcome |-> validate(features, name).outcome,
                        result |-> validate(features, name)]
  /\ UNCHANGED allButClassifierCall

ScoreAgainstRanges(features, sp) ==
  /\ classifierCall = None
  /\ classifierCall' =
       [kind |-> "scoreAgainstRanges", features |-> features, species |-> sp,
        outcome |-> "returned",
        result |-> scoreAgainstRanges(features, speciesFeatureRanges[sp].features)]
  /\ UNCHANGED allButClassifierCall

NextClassifier ==
  \/ \E f \in Measurements : Classify(f)
  \/ \E f \in Measurements, name \in Names : Validate(f, name)
  \/ \E f \in Measurements, sp \in Species : ScoreAgainstRanges(f, sp)

SpecClassifier == Init /\ [][NextClassifier]_vars

(***************************************************************************)
(* Properties of the classifier's error path, of export, of the buffer and *)
(* of progress.                                                            *)
(***************************************************************************)

\* C11: a validate call with a name that has no feature ranges returned, so
\* it did not raise, and it did not read the texture; it reported isValid
\* false, confidence 0, no feature match and one suggestion, which holds the
\* name as the caller passed it.
C11_UnknownSpeciesReported ==
  ( /\ classifierCall.kind = "validate"
    /\ ~ \E s \in Species : Spelling[s] = toLowerCase(classifierCall.species) )
  => /\ classifierCall.outcome = "returned"
     /\ ~ classifierCall.result.extracted
     /\ classifierCall.result.isValid = FALSE
     /\ classifierCall.result.confidence = 0
     /\ classifierCall.result.featureMatches = << >>
     /\ classifierCall.result.suggestions
          = << [unknown |-> classifierCall.species] >>

\* C12: an export on a generator without a buffer ends with the no-texture
\* error, which no unknown-species error equals, and changes neither the
\* params nor the buffers; a runValidation on a generator without a buffer
\* sets no timer, and a classification is only ever made of a buffer.
C12_NoTextureNoExport ==
  [][ /\ ( /\ lastCall'.kind = "export"
           /\ calls' = calls + 1
           /\ graphics[lastCall'.gen] = Null )
         => /\ lastCall'.outcome = "Error"
            /\ lastCall'.message = NoTexture.message
            /\ \A name \in Names : NoTexture # UnknownSpecies(name)
            /\ UNCHANGED << heap, params, graphics, buffers >>
      /\ ( /\ lastCall'.kind = "runValidation"
           /\ calls' = calls + 1
           /\ graphics[lastCall'.gen] = Null )
         => UNCHANGED << timers, classifierCall, panel >>
      /\ classifierCall' # classifierCall
         => /\ graphics[classifierCall'.gen] # Null
            /\ classifierCall'.texture \in 1..Len(buffers)
    ]_vars

\* C12's case: an export was asked of a generator that has no buffer.
C12_Witness ==
  /\ lastCall.kind = "export"
  /\ graphics[lastCall.gen] = Null
  /\ lastCall.outcome = "Error"

\* C13: a generate(w, h) step leaves the generator with a buffer of width w
\* and height h; when the generator had a buffer of that size it is the
\* same buffer and none was allocated, otherwise it is a buffer allocated by
\* this call.
C13_BufferReusedOrReplaced ==
  [][ ( lastCall'.kind = "generate" /\ calls' = calls + 1 )
      => LET g == lastCall'.gen
         IN /\ graphics'[g] \in 1..Len(buffers')
            /\ buffers'[graphics'[g]].width = lastCall'.width
            /\ buffers'[graphics'[g]].height = lastCall'.height
            /\ IF /\ graphics[g] # Null
                  /\ buffers[graphics[g]].width = lastCall'.width
                  /\ buffers[graphics[g]].height = lastCall'.height
               THEN /\ graphics'[g] = graphics[g]
                    /\ Len(buffers') = Len(buffers)
               ELSE /\ graphics'[g] = Len(buffers) + 1
                    /\ Len(buffers') = Len(buffers) + 1
    ]_vars

\* C13's case: a generator that had a buffer was asked for another size.
C13_Witness ==
  /\ lastCall.kind = "generate"
  /\ lastCall.graphicsBefore # Null
  /\ lastCall.allocated
  /\ graphics[lastCall.gen] # lastCall.graphicsBefore

\* A percent value: a number from 0 to 100.
IsPercent(v) == v # NaN /\ 0 <= v /\ v <= 100 * Unit

\* C20: every percent a progressive render has passed to its progress
\* callback is a number from 0 to 100.
C20_ProgressIsPercent ==
  /\ \A i \in 1..Len(tasks) :
       \A k \in 1..Len(tasks[i].progress) : IsPercent(tasks[i].progress[k].percent)
  /\ resolved.kind = "resolved"
       => \A k \in 1..Len(resolved.progress) : IsPercent(resolved.progress[k].percent)

(***************************************************************************)
(* Properties of classify, validate and scoreAgainstRanges.                *)
(***************************************************************************)

KnownSpecies(name) == \E s \in Species : Spelling[s] = toLowerCase(name)
SpeciesOf(name) == CHOOSE s \in Species : Spelling[s] = toLowerCase(name)
RegistrationIndex(sp) ==
  CHOOSE i \in 1..Len(getDefinedSpecies) : getDefinedSpecies[i] = sp
FeatureKeys == { FeatureNames[i] : i \in 1..Len(FeatureNames) }
Within(value, range) == value # NaN /\ range[1] <= value /\ value <= range[2]

\* C14: classify scored every registered species once and returned them by
\* descending score: the primary and the alternatives are the five species,
\* each once, each with its score against its own ranges; no entry has a
\* smaller confidence than a later one, and entries of equal confidence stand
\* in registration order.
C14_ClassifyRanksEverySpecies ==
  classifierCall.kind = "classify" =>
    LET r == classifierCall.result
        ranked == << r.primary >> \o r.alternatives
    IN /\ Len(ranked) = Len(getDefinedSpecies)
       /\ \A sp \in Species : \E i \in 1..Len(ranked) : ranked[i].species = sp
       /\ \A i \in 1..Len(ranked) :
            ranked[i].confidence =
              scoreAgainstRanges(classifierCall.features,
                speciesFeatureRanges[ranked[i].species].features).score
       /\ \A i, j \in 1..Len(ranked) :
            i < j => /\ JsGe(ranked[i].confidence, ranked[j].confidence)
                     /\ ranked[i].confidence = ranked[j].confidence
                          => RegistrationIndex(ranked[i].species)
                               < RegistrationIndex(ranked[j].species)

\* The weight the claim gives a feature: 1 inside the range, otherwise half
\* of max(0, 1 - distance / rangeSize).
Weight(value, range) ==
  IF value = NaN THEN NaN
  ELSE IF Within(value, range) THEN Unit
  ELSE Max(0, Unit - Div(Min(Abs(value - range[1]), Abs(value - range[2])),
                         range[2] - range[1])) \div 2

\* C15: the score scoreAgainstRanges returned is a number from 0 to 1, it is
\* the fifth of the sum of the five weights, and the features outside their
\* range account for at most a half each.
C15_ScoreIsMeanWeight ==
  classifierCall.kind = "scoreAgainstRanges" =>
    LET r == classifierCall.result
        ranges == speciesFeatureRanges[classifierCall.species].features
    IN /\ r.score # NaN
       /\ 0 <= r.score /\ r.score <= Unit
       /\ r.total = Len(FeatureNames)
       /\ r.score =
            SumOf([key \in FeatureKeys |->
                     Weight(classifierCall.features[key], ranges[key])])
              \div Len(FeatureNames)
       /\ r.total * r.score
            <= r.matches * Unit + (r.total - r.matches) * (Unit \div 2)

\* C16: validate of a known species reported a value equal to min or to max
\* as in range, and a confidence of exactly 1 if and only if each of the
\* five features lies within its bounds, the bounds included.
C16_BoundsInclusive ==
  ( classifierCall.kind = "validate" /\ KnownSpecies(classifierCall.species) )
  => LET r == classifierCall.result
         ranges == speciesFeatureRanges[SpeciesOf(classifierCall.species)].features
     IN /\ \A key \in FeatureKeys :
             classifierCall.features[key] \in { ranges[key][1], ranges[key][2] }
               => r.featureMatches[key].inRange
        /\ r.confidence = Unit
             <=> \A key \in FeatureKeys :
                   Within(classifierCall.features[key], ranges[key])

\* C16's case: a validate of pine on a vector with two features at their
\* upper bounds, which scored 1.
C16_Witness ==
  /\ classifierCall.kind = "validate"
  /\ classifierCall.species = Spelling["pine"]
  /\ classifierCall.features.verticalEnergy = 850
  /\ classifierCall.features.horizontalEnergy = 400
  /\ classifierCall.result.confidence = Unit

\* C17: validate of a known species reported isValid true if and only if the
\* confidence it reported is at least the species' confidenceThreshold.
C17_ValidIffThresholdMet ==
  ( classifierCall.kind = "validate" /\ KnownSpecies(classifierCall.species) )
  => LET r == classifierCall.result
         threshold ==
           speciesFeatureRanges[SpeciesOf(classifierCall.species)].confidenceThreshold
     IN r.isValid <=> (r.confidence # NaN /\ r.confidence >= threshold)

\* C17's case: a validate whose confidence is the threshold itself.
C17_Witness ==
  /\ classifierCall.kind = "validate"
  /\ KnownSpecies(classifierCall.species)
  /\ classifierCall.result.confidence =
       speciesFeatureRanges[SpeciesOf(classifierCall.species)].confidenceThreshold
  /\ classifierCall.result.isValid

\* C18: validate of a known species gave one suggestion for each feature it
\* reported out of range and no other, in feature order: the table's
\* increase entry for a value below min, its decrease entry for a value
\* above max.
C18_OneSuggestionPerMismatch ==
  ( classifierCall.kind = "validate" /\ KnownSpecies(classifierCall.species) )
  => LET r == classifierCall.result
         ranges == speciesFeatureRanges[SpeciesOf(classifierCall.species)].features
         Out(key) == ~ r.featureMatches[key].inRange
         out == SelectSeq(FeatureNames, Out)
     IN /\ Len(r.suggestions) = Len(out)
        /\ \A k \in 1..Len(out) :
             /\ r.suggestions[k].key = out[k]
             /\ JsLt(classifierCall.features[out[k]], ranges[out[k]][1])
                  => r.suggestions[k].text = adjustmentSuggestions[out[k]].increase
             /\ JsGt(classifierCall.features[out[k]], ranges[out[k]][2])
                  => r.suggestions[k].text = adjustmentSuggestions[out[k]].decrease

\* C18's case: a validate that suggested an increase and a decrease, with a
\* feature in range between them.
C18_Witness ==
  /\ classifierCall.kind = "validate"
  /\ KnownSpecies(classifierCall.species)
  /\ Len(classifierCall.result.suggestions) = 2
  /\ classifierCall.result.suggestions[1].text
       = adjustmentSuggestions.verticalEnergy.increase
  /\ classifierCall.result.suggestions[2].text
       = adjustmentSuggestions.colorVariance.decrease

\* C19: the mismatches classify returned are the features that validate
\* reports out of range for the same feature vector and the primary species,
\* in feature order, each with the value and the primary's range.
C19_MismatchesAgreeWithValidate ==
  classifierCall.kind = "classify" =>
    LET r == classifierCall.result
        ranges == speciesFeatureRanges[r.primary.species].features
        v == validate(classifierCall.features, Spelling[r.primary.species])
        Out(key) == ~ v.featureMatches[key].inRange
        out == SelectSeq(FeatureNames, Out)
    IN /\ Len(r.mismatches) = Len(out)
       /\ \A k \in 1..Len(out) :
            r.mismatches[k] =
              [feature |-> out[k], actual |-> classifierCall.features[out[k]],
               expected |-> ranges[out[k]]]

(***************************************************************************)
(* lerpColor called on its own.  Hues are multiples of 1/Unit degree.      *)
(***************************************************************************)

Hues ==
  { 0, 10 * Unit, 90 * Unit, 170 * Unit, 180 * Unit, 190 * Unit, 350 * Unit,
    360 * Unit - 1 }
Colours == { << h, 50 * Unit, 40 * Unit >> : h \in Hues }
Fractions == { 0, Unit \div 4, Unit \div 2, (3 * Unit) \div 4, Unit }

LerpColor(color1, color2, t) ==
  /\ noiseCall' = [kind |-> "lerpColor", color1 |-> color1, color2 |-> color2,
                   t |-> t, outcome |-> "returned",
                   value |-> lerpColor(color1, color2, t)]
  /\ UNCHANGED allButNoiseCall

NextColour ==
  \E color1 \in Colours, color2 \in Colours, t \in Fractions :
    LerpColor(color1, color2, t)

SpecColour == Init /\ [][NextColour]_vars

\* The distance between two hues around the hue circle.
HueDistance(a, b) == Min(Abs(a - b), 360 * Unit - Abs(a - b))

PointCoords == { 0 - 2 * Unit, 0, 5 * Unit, 10 * Unit, 511 * Unit }
VoronoiInputs ==
  [cellDensity : { 25, 100 },
   distanceFunction : { "euclidean", "manhattan", "chebyshev" },
   edgeWidth : { 0, 150, 400 }, jitter : { 0, 800 }]

VoronoiNoise(x, y, ps) ==
  /\ noiseCall = None
  /\ noiseCall' = Returned("voronoiNoise", x, y, ps,
                           voronoiNoise(noiseSeed, x, y, ps))
  /\ UNCHANGED allButNoiseCall
VoronoiEdges(x, y, ps) ==
  /\ noiseCall = None
  /\ noiseCall' = Returned("voronoiEdges", x, y, ps,
                           voronoiEdges(noiseSeed, x, y, ps))
  /\ UNCHANGED allButNoiseCall
VoronoiCellValue(x, y, ps) ==
  /\ noiseCall = None
  /\ noiseCall' = Returned("voronoiCellValue", x, y, ps,
                           voronoiCellValue(noiseSeed, x, y, ps))
  /\ UNCHANGED allButNoiseCall

NextVoronoi ==
  \/ \E x \in PointCoords, y \in PointCoords, ps \in VoronoiInputs :
       VoronoiNoise(x, y, ps)
  \/ \E x \in PointCoords, y \in PointCoords, ps \in VoronoiInputs :
       VoronoiEdges(x, y, ps)
  \/ \E x \in PointCoords, y \in PointCoords, ps \in VoronoiInputs :
       VoronoiCellValue(x, y, ps)

SpecVoronoi == Init /\ [][NextVoronoi]_vars

\* C24: voronoiEdges returns a value in [0,1]; with edgeWidth > 0 it is 1
\* where F1 = F2; with edgeWidth = 0 it is 1 when F2 - F1 < 0.01 and 0
\* otherwise.
C24_EdgeValueInUnitRange ==
  noiseCall.kind = "voronoiEdges" =>
    LET vn == voronoiNoise(noiseSeed, noiseCall.x, noiseCall.y, noiseCall.params)
        edgeWidth == noiseCall.params.edgeWidth
    IN /\ noiseCall.outcome = "returned"
       /\ noiseCall.value # NaN
       /\ 0 <= noiseCall.value /\ noiseCall.value <= Unit
       /\ edgeWidth > 0 /\ vn.f1 = vn.f2 => noiseCall.value = Unit
       /\ edgeWidth = 0 =>
            noiseCall.value = (IF vn.f2 - vn.f1 < Unit \div 100 THEN Unit ELSE 0)

\* C24's cases: a point at the same distance from its two nearest seeds
\* with a positive edgeWidth, and with edgeWidth = 0.
C24_Witness ==
  /\ noiseCall.kind = "voronoiEdges"
  /\ noiseCall.params.edgeWidth > 0
  /\ LET vn == voronoiNoise(noiseSeed, noiseCall.x, noiseCall.y, noiseCall.params)
     IN vn.f1 = vn.f2 /\ vn.f1 > 0
  /\ noiseCall.value = Unit

\* The nine distances from the scaled point to the seeds of the 3x3
\* neighbourhood of its cell, as a function of the neighbour's offsets.
SeedDistances(s, x, y, ps) ==
  LET scaledX == Mul(x, ps.cellDensity)
      scaledY == Mul(y, ps.cellDensity)
  IN [o \in (-1..1) \X (-1..1) |->
        LET point == getCellPoints(s, Floor(scaledX) + o[1], Floor(scaledY) + o[2],
                                   ps.jitter)
        IN distanceFunctions(ps.distanceFunction,
                             scaledX - point.x, scaledY - point.y)]

\* C25: F1 is the least of the nine distances, F2 the least of the other
\* eight (so F2 = F1 on a tie and F1 <= F2), and cellId is the id of a
\* neighbour at distance F1.
C25_NearestAndSecondNearest ==
  noiseCall.kind = "voronoiNoise" =>
    LET dist == SeedDistances(noiseSeed, noiseCall.x, noiseCall.y, noiseCall.params)
        cellX == Floor(Mul(noiseCall.x, noiseCall.params.cellDensity))
        cellY == Floor(Mul(noiseCall.y, noiseCall.params.cellDensity))
        v == noiseCall.value
    IN /\ \E o \in DOMAIN dist :
            /\ dist[o] = v.f1
            /\ v.cellId = (cellX + o[1]) * 1000 + (cellY + o[2])
            /\ \A q \in DOMAIN dist : v.f1 <= dist[q]
            /\ \E q \in DOMAIN dist \ { o } :
                 /\ dist[q] = v.f2
                 /\ \A r \in DOMAIN dist \ { o } : v.f2 <= dist[r]
       /\ v.f1 <= v.f2

\* C25's case: a call where two seeds are at the least distance.
C25_Witness ==
  /\ noiseCall.kind = "voronoiNoise"
  /\ noiseCall.value.f1 = noiseCall.value.f2
  /\ LET dist == SeedDistances(noiseSeed, noiseCall.x, noiseCall.y, noiseCall.params)
     IN Cardinality({ o \in DOMAIN dist : dist[o] = noiseCall.value.f1 }) >= 2

\* The cell coordinates the app can reach: the canvas is 512 pixels, the
\* panel's cellDensity is at most 0.1 and a warp moves a point by at most
\* two pixels; CellMargin more cells are allowed on every side.
CellMargin == 8
PracticalCells == (0 - CellMargin) .. ((512 \div 10) + CellMargin)

\* C26: over the cells that occur in practice the id names one cell: the
\* id voronoiNoise returns is the id of no cell but the nearest neighbour.
C26_CellIdInjective ==
  noiseCall.kind = "voronoiNoise" =>
    LET dist == SeedDistances(noiseSeed, noiseCall.x, noiseCall.y, noiseCall.params)
        cellX == Floor(Mul(noiseCall.x, noiseCall.params.cellDensity))
        cellY == Floor(Mul(noiseCall.y, noiseCall.params.cellDensity))
        named == { c \in PracticalCells \X PracticalCells :
                     nearestCellId(c[1], c[2]) = noiseCall.value.cellId }
    IN /\ Cardinality(named) = 1
       /\ \A c \in named :
            /\ << c[1] - cellX, c[2] - cellY >> \in DOMAIN dist
            /\ dist[<< c[1] - cellX, c[2] - cellY >>] = noiseCall.value.f1

\* C26's case: the nearest seed is in a -1 neighbour of cell 0 or in a cell
\* of negative coordinates.
C26_Witness ==
  /\ noiseCall.kind = "voronoiNoise"
  /\ noiseCall.value.cellId < 0
  /\ noiseCall.value.cellId % 1000 = 999

(***************************************************************************)
(* The feature extractor called on its own, on a p5 instance whose pixel   *)
(* density and noise seed are set between the calls.  The textures are     *)
(* buffers as a generator leaves them: of density 1 (the generators set    *)
(* graphics.pixelDensity(1)), with the pixels array equal to the canvas.   *)
(***************************************************************************)

\* A buffer painted with the given colours, row by row.
Coloured(width, height, colours) ==
  [createGraphics(width, height) EXCEPT
     !.canvas = [i \in 1..(width * height) |->
                   << colours[i][1], colours[i][2], colours[i][3], 255 >>]]

Brown == << 120, 80, 40 >>
Moss == << 60, 110, 50 >>
Slate == << 70, 80, 130 >>
Wine == << 130, 40, 70 >>

ExtractorTextures ==
  { loadPixels(t) :
      t \in Textures \cup
        { Coloured(1, 1, << Wine >>),
          Coloured(3, 3, << Brown, Brown, Moss, Brown, Moss, Moss, Slate, Slate, Wine >>),
          Coloured(3, 3, << Wine, Slate, Brown, Wine, Slate, Brown, Moss, Moss, Moss >>),
          Coloured(4, 4, << Brown, Moss, Slate, Wine, Wine, Slate, Moss, Brown,
                            Moss, Wine, Brown, Slate, Slate, Brown, Wine, Moss >>) } }

Densities == { 1, 2 }

\* p.pixelDensity(val)
PixelDensity(val) ==
  /\ pixelDensity # val
  /\ pixelDensity' = val
  /\ UNCHANGED << heap, held, noiseSeed, species, params, graphics, buffers,
                  tasks, calls, lastCall, history, resolved, lastGood,
                  noiseCall, regCall, classifierCall, timers, panel,
                  paramPanel >>

\* p.noiseSeed(seed)
NoiseSeed(seed) ==
  /\ noiseSeed # seed
  /\ noiseSeed' = seed
  /\ UNCHANGED << heap, held, species, params, graphics, buffers, tasks, calls,
                  lastCall, history, resolved, lastGood, noiseCall, regCall,
                  classifierCall, timers, panel, pixelDensity,
                  paramPanel >>

\* extractor.extract(texture): the call record keeps the texture as it was
\* handed over and as it is left, the host state, and the call before.
Extract(texture) ==
  /\ \/ classifierCall = None
     \/ classifierCall.kind = "extract" /\ classifierCall.earlier = None
  /\ classifierCall' =
       [kind |-> "extract", texture |-> texture, left |-> loadPixels(texture),
        density |-> pixelDensity, seed |-> noiseSeed,
        features |-> extract(texture, pixelDensity),
        earlier |-> classifierCall]
  /\ UNCHANGED allButClassifierCall

NextExtractor ==
  \/ \E val \in Densities : PixelDensity(val)
  \/ \E seed \in { Unseeded } \cup Seeds : NoiseSeed(seed)
  \/ \E texture \in ExtractorTextures : Extract(texture)

SpecExtractor == Init /\ [][NextExtractor]_vars

\* C21: extract leaves the texture's pixels as they were, and two
\* extractions of textures with the same width, height and pixels return
\* the same feature vector, whatever the pixel density and the noise seed of
\* the p5 instance at either call.
C21_FeaturesOfPixelsAlone ==
  classifierCall.kind = "extract" =>
    /\ classifierCall.left.pixels = classifierCall.texture.pixels
    /\ classifierCall.left.canvas = classifierCall.texture.canvas
    /\ ( /\ classifierCall.earlier # None
         /\ classifierCall.earlier.texture.width = classifierCall.texture.width
         /\ classifierCall.earlier.texture.height = classifierCall.texture.height
         /\ classifierCall.earlier.texture.pixels = classifierCall.texture.pixels )
       => classifierCall.earlier.features = classifierCall.features

InUnitRange(v) == v # NaN /\ 0 <= v /\ v <= Unit

\* C22: every feature vector extract returns, of textures under three
\* pixels wide or high too, has verticalEnergy, horizontalEnergy,
\* ridgeDensity, plateSize, colorVariance and meanLuminance in [0,1],
\* dominantHue in [0,360) and eight edgeOrientations that are all zero or sum
\* to 1 (within the rounding of eight quotients).  The textures are read
\* under the pixel density they were made with.
C22_FeaturesInRange ==
  classifierCall.kind = "extract" /\ classifierCall.density = 1 =>
    LET f == classifierCall.features
    IN /\ \A k \in { "verticalEnergy", "horizontalEnergy", "ridgeDensity",
                     "plateSize", "colorVariance", "meanLuminance" } :
            InUnitRange(f[k])
       /\ f.dominantHue # NaN /\ 0 <= f.dominantHue /\ f.dominantHue < 360 * Unit
       /\ DOMAIN f.edgeOrientations = 0..7
       /\ \A b \in 0..7 : InUnitRange(f.edgeOrientations[b])
       /\ \/ \A b \in 0..7 : f.edgeOrientations[b] = 0
          \/ /\ SumOf(f.edgeOrientations) <= Unit
             /\ SumOf(f.edgeOrientations) > Unit - 8

(***************************************************************************)
(* generateAsync under a browser that delivers animation frames: as long   *)
(* as a processChunk is requested, some requested frame is delivered.      *)
(***************************************************************************)

NextAsync ==
  \/ \E g \in Studied, d \in Dims : GenerateAsyncStart(g, d[1], d[2])
  \/ \E i \in 1..Len(tasks) : Frame(i)
  \/ \E g \in Studied, upd \in Updates : SetParams(g, upd)

\* The delivery of a requested frame, told by what processChunk does to the
\* pending renders alone: the render advances by one chunk and reports it,
\* or leaves the list when its last row is written.
FrameDelivered ==
  \E i \in 1..Len(tasks) :
    LET t == tasks[i]
        endRow == Min(t.currentRow + chunkSize, t.height)
        sampled == t.width > 0 /\ endRow > t.currentRow
        ok == t.seedOk /\ (sampled => noiseSeed = t.seed)
        percent == JsTimes(JsOver(endRow * Unit, t.height), 100)
        others == [j \in 1..Len(tasks) |->
                     IF j = i
                     THEN [t EXCEPT !.currentRow = endRow, !.seedOk = ok,
                                    !.progress = onProgress(t.progress, percent,
                                                            "Generating...")]
                     ELSE [tasks[j] EXCEPT !.clean = FALSE]]
    IN tasks' = IF endRow < t.height THEN others ELSE RemoveAt(others, i)

\* The steps of NextAsync that deliver a frame are exactly the Frame steps.
FrameDeliveredIsFrame ==
  [][FrameDelivered <=> \E i \in 1..Len(tasks) : Frame(i)]_vars

SpecAsync ==
  /\ Init
  /\ [][NextAsync]_vars
  /\ WF_tasks(FrameDelivered)

\* The number of processChunk runs that take currentRow from 0 to rows.
ChunksOf(rows) == (rows + chunkSize - 1) \div chunkSize

NonDecreasing(progress) ==
  \A i \in 1..(Len(progress) - 1) :
    JsLe(progress[i].percent, progress[i + 1].percent)

\* What the callback has been told while the promise is pending: the call
\* (0, 'Starting...') before a row is written, then one call per chunk.
PendingProgress(t) ==
  /\ Len(t.progress) = 1 + ChunksOf(t.currentRow)
  /\ t.progress[1] = [percent |-> 0, status |-> "Starting..."]
  /\ \A i \in 2..Len(t.progress) : t.progress[i].status = "Generating..."
  /\ NonDecreasing(t.progress)
  /\ t.currentRow < t.height

\* What the callback has been told when the promise resolves.
ResolvedProgress(r) ==
  /\ Len(r.progress) = ChunksOf(r.height) + 2
  /\ r.progress[1] = [percent |-> 0, status |-> "Starting..."]
  /\ \A i \in 2..(Len(r.progress) - 1) : r.progress[i].status = "Generating..."
  /\ r.progress[Len(r.progress)] = [percent |-> 100 * Unit, status |-> "Complete!"]
  /\ NonDecreasing(r.progress)

TallInFlight == \E i \in 1..Len(tasks) : tasks[i].height >= 1

\* C27: for a generateAsync of height >= 1 the callback is first called with
\* percent 0, before a row is written; one call follows each 16-row chunk,
\* with non-decreasing percent; (100, 'Complete!') is the last call, made
\* once, when the promise resolves after ceil(height / 16) frames; a pending
\* call has not been told of completion; and with frames delivered every
\* pending call resolves.
C27_ProgressThenResolved ==
  /\ [](\A i \in 1..Len(tasks) :
          tasks[i].height >= 1 => PendingProgress(tasks[i]))
  /\ [](resolved.kind = "resolved" /\ resolved.height >= 1
          => ResolvedProgress(resolved))
  /\ (TallInFlight ~> ~TallInFlight)

\* C27's case: a render of more than one chunk has resolved.
C27_Witness ==
  /\ resolved.kind = "resolved"
  /\ resolved.height > chunkSize
  /\ Len(resolved.progress) = 4
  /\ resolved.progress[2].percent < resolved.progress[3].percent

(***************************************************************************)
(* The species tag and params.species.  The tag is the class's species     *)
(* getter; params.species is a field of the params object like any other.  *)
(***************************************************************************)

\* Params objects and partial updates that name the species field.
TaggedOverrides == Overrides \cup { [species |-> "oak"] }
TaggedUpdates == Updates \cup { [species |-> "birch"] }

\* getExportMetadata(): species is this.species, params is getParams().
GetExportMetadata(g) ==
  LET r == getParams(heap, params[g])
  IN /\ calls < MaxCalls
     /\ calls' = calls + 1
     /\ heap' = r.heap
     /\ held' = held \cup { r.addr }
     /\ lastCall' = [kind |-> "getExportMetadata", gen |-> g,
                     generator |-> "bark-generator", version |-> "0.1.0",
                     species |-> species[g],
                     params |-> DerefParams(r.heap, r.addr)]
     /\ UNCHANGED << noiseSeed, species, params, graphics, buffers, tasks,
                     history, resolved, lastGood, noiseCall, regCall,
                     classifierCall, timers, panel, pixelDensity,
                  paramPanel >>

NextSpecies ==
  \/ \E g \in Studied, name \in Names, seed \in Seeds :
       CreateGenerator(g, name, seed)
  \/ \E g \in Studied, over \in TaggedOverrides, seed \in Seeds :
       Construct(g, over, seed)
  \/ \E g \in Studied, upd \in TaggedUpdates : SetParams(g, upd)
  \/ \E g \in Studied, seed \in Seeds : ResetToDefaults(g, seed)
  \/ \E g \in Studied : GetExportMetadata(g)

SpecSpecies == Init /\ [][NextSpecies]_vars

\* C28: whatever constructor overrides, setParams and resetToDefaults calls
\* a generator has seen, the species field of its params is its species
\* tag, and the metadata getExportMetadata() returns name one species.
C28_SpeciesTagKept ==
  /\ \A g \in Studied : DerefParams(heap, params[g]).species = species[g]
  /\ lastCall.kind = "getExportMetadata" =>
       lastCall.species = lastCall.params.species

(***************************************************************************)
(* The application driven by its parameter panel (main.ts, ParameterPanel).*)
(* The one generator of the app is g1.  A dat.GUI controller writes the    *)
(* value into the object it was given and then calls its onChange.         *)
(***************************************************************************)

\* The canvas is CANVAS_SIZE pixels wide and high (512 in main.ts).
CANVAS_SIZE == 3

\* The sliders moved, with the values they are moved to: base colour hue,
\* colour variation, noise scale.
SliderMoves == { << << "colors", "baseColor" >>, 200 >>,
                 << << "colors", "colorVariation" >>, 0 >>,
                 << << "noise", "scale" >>, 50 >> }

\* regenerateTexture(): generator.generate(CANVAS_SIZE, CANVAS_SIZE) on the
\* generator of species sp with params at cur and buffer gfx (Null if it has
\* none), under the noise state s; then runValidation reads the buffer.
regenerateTexture(h, sp, cur, gfx, bufs, s) ==
  LET fresh == \/ gfx = Null
               \/ bufs[gfx].width # CANVAS_SIZE
               \/ bufs[gfx].height # CANVAS_SIZE
      bs == IF fresh
            THEN Append(bufs, createGraphics(CANVAS_SIZE, CANVAS_SIZE))
            ELSE bufs
      gid == IF fresh THEN Len(bufs) + 1 ELSE gfx
      ps == DerefParams(h, cur)
      seed == reseed(s, ps)
      Drawn(loaded) ==
        [loaded EXCEPT !.pixels =
           generate_loops(sp, ps, seed, CANVAS_SIZE, CANVAS_SIZE, @)]
      Return(final) ==
        [graphics |-> gid, buffers |-> [bs EXCEPT ![gid] = final],
         noiseSeed |-> seed,
         render |-> [sp |-> sp, params |-> ps, width |-> CANVAS_SIZE,
                     height |-> CANVAS_SIZE, pixels |-> final.canvas,
                     before |-> s],
         timer |-> [gen |-> "g1", graphics |-> gid]]
  IN Return(updatePixels(Drawn(loadPixels(bs[gid]))))

\* The state when p.setup() has returned: currentParams is
\* getSpeciesDefaults('pine'), the generator is createGenerator(p, 'pine',
\* currentParams), the panel holds { ...currentParams }, the first texture is
\* rendered and its validation timer is pending.
InitPanel ==
  LET currentParams == createDefaultParams(PaletteHeap, "pine", 1)
      generator == construct(currentParams.heap, "pine", 2, currentParams.addr)
      h == Append(generator.heap,
                  Spread(EmptyObject, generator.heap[currentParams.addr]))
      After(r) ==
        /\ heap = h
        /\ held = { currentParams.addr }
        /\ noiseSeed = r.noiseSeed
        /\ species = [g \in Gens |-> "pine"]
        /\ params = [g \in Gens |-> generator.addr]
        /\ graphics = [g \in Gens |-> IF g = "g1" THEN r.graphics ELSE Null]
        /\ buffers = r.buffers
        /\ tasks = << >>
        /\ calls = 0
        /\ lastCall = None
        /\ history = { r.render }
        /\ resolved = None
        /\ lastGood = [g \in Gens |->
                         IF g = "g1"
                         THEN [kind |-> "render", buf |-> r.graphics,
                               canvas |-> r.render.pixels]
                         ELSE None]
        /\ noiseCall = None
        /\ regCall = None
        /\ classifierCall = None
        /\ timers = << r.timer >>
        /\ panel = [kind |-> "loading"]
        /\ pixelDensity = 1
        /\ paramPanel = Len(h)
  IN After(regenerateTexture(h, "pine", generator.addr, Null, << >>, Unseeded))

\* A slider of the panel is moved: the controller writes this.params in
\* place, notifyChange() hands { ...this.params } to the app's callback,
\* which replaces the generator if the species differs and calls setParams
\* otherwise, and then regenerateTexture().
SliderChanged(path, v, seed) ==
  LET h1 == assign(heap, paramPanel, path, v)
      newParams == Len(h1) + 1
      h2 == Append(h1, Spread(EmptyObject, h1[paramPanel]))
      sp == h1[paramPanel].species
      replaced == species["g1"] # sp
      gen == IF replaced THEN construct(h2, sp, seed, newParams)
             ELSE setParams(h2, params["g1"], newParams)
      gfx == IF replaced THEN Null ELSE graphics["g1"]
      After(r) ==
        /\ heap' = gen.heap
        /\ held' = held \cup { newParams }
        /\ species' = [species EXCEPT !["g1"] = sp]
        /\ params' = [params EXCEPT !["g1"] = gen.addr]
        /\ graphics' = [graphics EXCEPT !["g1"] = r.graphics]
        /\ buffers' = r.buffers
        /\ noiseSeed' = r.noiseSeed
        /\ history' = history \cup { r.render }
        /\ lastGood' = [lastGood EXCEPT !["g1"] =
                          [kind |-> "render", buf |-> r.graphics,
                           canvas |-> r.render.pixels]]
        \* runValidation: showLoading(), setTimeout(..., 50)
        /\ panel' = [kind |-> "loading"]
        /\ timers' = Append(timers, r.timer)
  IN /\ calls < MaxCalls
     /\ calls' = calls + 1
     /\ Assignable(heap, paramPanel, path)
     /\ After(regenerateTexture(gen.heap, sp, gen.addr, gfx, buffers, noiseSeed))
     /\ tasks' = Interleaved(tasks)
     /\ lastCall' = [kind |-> "sliderChanged", path |-> path, value |-> v,
                     replaced |-> replaced]
     /\ UNCHANGED << resolved, noiseCall, regCall, classifierCall, pixelDensity,
                     paramPanel >>

\* The species selector is changed: defaults = getSpeciesDefaults(value),
\* updateParams(defaults), rebuildFolders(); the app is not notified.
SpeciesSelected(sp, seed) ==
  LET defaults == createDefaultParams(heap, sp, seed)
      \* JSON.parse(JSON.stringify(params)): a new object graph
      copy == AllocTree(defaults.heap,
                        DerefParams(defaults.heap, defaults.addr))
  IN /\ calls < MaxCalls
     /\ calls' = calls + 1
     /\ heap' = copy.heap
     /\ paramPanel' = copy.addr
     /\ regCall' = [kind |-> "getSpeciesDefaults", name |-> Spelling[sp],
                    outcome |-> "returned", species |-> sp,
                    value |-> DerefParams(defaults.heap, defaults.addr)]
     /\ lastCall' = [kind |-> "speciesSelected", species |-> sp]
     /\ UNCHANGED << held, noiseSeed, species, params, graphics, buffers, tasks,
                     history, resolved, lastGood, noiseCall, classifierCall,
                     timers, panel, pixelDensity >>

NextPanel ==
  \/ \E m \in SliderMoves, seed \in Seeds : SliderChanged(m[1], m[2], seed)
  \/ \E sp \in Species, seed \in Seeds : SpeciesSelected(sp, seed)
  \/ TimerFires

SpecPanel == InitPanel /\ [][NextPanel]_vars

\* C29: whatever the panel's sliders and the generator's setParams have done
\* meanwhile, getSpeciesDefaults(s) returns the preset of s, the seed apart:
\* every call made returned it, and a call made now would.
C29_PresetsUnchanged ==
  /\ regCall.kind = "getSpeciesDefaults" =>
       [regCall.value EXCEPT !.noise.seed = Unseeded]
         = getDefaultParams(regCall.species, Unseeded)
  /\ \A s \in Species :
       LET d == createDefaultParams(heap, s, Unseeded)
       IN DerefParams(d.heap, d.addr) = getDefaultParams(s, Unseeded)

\* What the classifier makes of the texture the generator holds now.
CurrentFeatures == extract(buffers[graphics["g1"]], pixelDensity)

\* C30: a classification the validation panel shows is the classification of
\* the texture of the latest regenerateTexture call, and when no timer is
\* pending the panel shows that classification.
C30_PanelShowsCurrentTexture ==
  /\ panel.kind = "classification" =>
       /\ panel.features = CurrentFeatures
       /\ panel.result = classify(CurrentFeatures)
  /\ timers = << >> => panel.kind = "classification"

====
